---- MODULE Spec2Model ----
(***************************************************************************)
(* etcdhosts: a CoreDNS plugin that serves hosts records kept in etcd.     *)
(* The model covers the keystore synchronizer (setup.go, storage.go), the  *)
(* indexed store (internal/hosts), the health cache and checker            *)
(* (internal/healthcheck), the balancer (internal/loadbalance) and the     *)
(* request handler (handler.go).                                           *)
(***************************************************************************)
EXTENDS Integers, Sequences, FiniteSets, TLC

\* ------------------------------------------------------------------------
\* Bounds of the model
\* ------------------------------------------------------------------------

\* Highest keystore revision the environment produces.
MaxRev == 4

\* Number of goroutines calling the lookups of the Store.
NumReaders == 1

\* Number of checks made of one health-check target.
MaxProbes == 4

\* Largest failuresBeforeDown and successBeforeUp a Checker is built with.
MaxThreshold == 2

\* Number of checks made of one target while queries are served.
MaxServeProbes == 3

\* Largest number of entries passed to Select.
MaxEntries == 3

\* The number of times Checker.Start is accepted, and of ticks of its ticker.
MaxRuns == 2

MaxSweeps == 1

\* Largest MaxConcurrent a Checker is built with, and the largest number of
\* targets it is given.
MaxSem == 2

MaxTargets == 3

\* ------------------------------------------------------------------------
\* Values
\* ------------------------------------------------------------------------

\* A nil []byte: no value under the key, or an event without data. The
\* keystore values of the model are never empty, so nil and empty coincide.
NilBytes == <<>>

\* Host names are sequences of characters, so that case folding and
\* label structure are computed and not assumed.
NameSvc == <<"s", ".", "z", ".">>
NameSvcUpper == <<"S", ".", "z", ".">>
NameDb == <<"d", ".", "z", ".">>
NameWild == <<"*", ".", "z", ".">>
NameOut == <<"s", ".", "o", ".">>

NameSub == <<"a", ".", "z", ".">>

\* A name that is not dot-terminated.
NameSvcBare == <<"s", ".", "z">>

\* IP addresses in their canonical text form (net.IP.String()).
V4Addrs == {"10.0.0.1", "10.0.0.2"}
V6Addrs == {"fd00::1"}

\* net.ParseIP followed by String(): the canonical text of an address, or
\* "" when the text is no IP address.
ParseIP(text) ==
    IF text \in V4Addrs \cup V6Addrs THEN text
    ELSE IF text = "FD00::1" THEN "fd00::1"
    ELSE ""

\* hosts.Health of a record: a TCP check on a port, and the nil pointer.
HealthTCP == [Type |-> "tcp", Port |-> 80]
NoHealth == [Type |-> "nil", Port |-> 0]

Rec(h, ip, ttl, w, hc) == [Hostname |-> h, IP |-> ip, TTL |-> ttl, Weight |-> w, Health |-> hc]

\* strings.ToLower on one character and on a name.
LowerChar(c) == CASE c = "S" -> "s" [] c = "D" -> "d" [] c = "Z" -> "z" [] OTHER -> c

ToLower(name) == [i \in 1..Len(name) |-> LowerChar(name[i])]

\* ------------------------------------------------------------------------
\* internal/hosts: Store
\* ------------------------------------------------------------------------

MapGet(m, k) == IF k \in DOMAIN m THEN m[k] ELSE <<>>

MapPut(m, k, v) == [x \in (DOMAIN m) \cup {k} |-> IF x = k THEN v ELSE m[x]]

\* appendUnique without the search for s.
appendUnique_Always(slice, s) == Append(slice, s)

\* appendUnique: append s unless the slice already holds it.
appendUnique(slice, s) ==
    IF \E i \in 1..Len(slice) : slice[i] = s THEN slice ELSE Append(slice, s)

EntryOf(r) == [IP |-> r.IP, TTL |-> r.TTL, Weight |-> r.Weight, Health |-> r.Health]

\* The loop body of Store.Update indexing every record in both families.
IndexRecord_BothFamilies(acc, r) ==
    LET hostname == ToLower(r.Hostname)
        entry == EntryOf(r)
    IN  [name4 |-> MapPut(acc.name4, hostname, Append(MapGet(acc.name4, hostname), entry)),
         name6 |-> MapPut(acc.name6, hostname, Append(MapGet(acc.name6, hostname), entry)),
         addr |-> MapPut(acc.addr, r.IP, appendUnique(MapGet(acc.addr, r.IP), hostname))]

\* One iteration of the loop of Store.Update over the record r.
IndexRecord(acc, r) ==
    LET hostname == ToLower(r.Hostname)
        entry == EntryOf(r)
        isV4 == r.IP \in V4Addrs
    IN  [name4 |-> IF isV4 THEN MapPut(acc.name4, hostname, Append(MapGet(acc.name4, hostname), entry))
                   ELSE acc.name4,
         name6 |-> IF isV4 THEN acc.name6
                   ELSE MapPut(acc.name6, hostname, Append(MapGet(acc.name6, hostname), entry)),
         addr |-> MapPut(acc.addr, r.IP, appendUnique(MapGet(acc.addr, r.IP), hostname))]

RECURSIVE IndexRecords(_, _, _)
IndexRecords(records, i, acc) ==
    IF i > Len(records) THEN acc
    ELSE IndexRecords(records, i + 1, IndexRecord(acc, records[i]))

EmptyMaps == [name4 |-> <<>>, name6 |-> <<>>, addr |-> <<>>]

\* The four fields Store.Update installs for the record list it is given.
BuildStore(records) ==
    LET m == IndexRecords(records, 1, EmptyMaps)
    IN  [name4 |-> m.name4, name6 |-> m.name6, addr |-> m.addr, records |-> records]

\* hosts.NewStore()
NewStore == BuildStore(<<>>)

HasPrefix(s, p) == Len(s) >= Len(p) /\ SubSeq(s, 1, Len(p)) = p

HasSuffix(s, p) == Len(s) >= Len(p) /\ SubSeq(s, Len(s) - Len(p) + 1, Len(s)) = p

Contains(s, c) == \E i \in 1..Len(s) : s[i] = c

isWildcard(pattern) == HasPrefix(pattern, <<"*", ".">>)

\* wildcardMatch without the test that the prefix is one label.
wildcardMatch_AnyDepth(pattern, name) ==
    LET p == ToLower(pattern)
        n == ToLower(name)
        suffix == SubSeq(p, 2, Len(p))
    IN  IF p = n THEN TRUE
        ELSE IF ~HasPrefix(p, <<"*", ".">>) THEN FALSE
        ELSE HasSuffix(n, suffix)

wildcardMatch(pattern, name) ==
    LET p == ToLower(pattern)
        n == ToLower(name)
        suffix == SubSeq(p, 2, Len(p))
    IN  IF p = n THEN TRUE
        ELSE IF ~HasPrefix(p, <<"*", ".">>) THEN FALSE
        ELSE IF ~HasSuffix(n, suffix) THEN FALSE
        ELSE ~Contains(SubSeq(n, 1, Len(n) - Len(suffix)), ".")

matchScore(pattern, name) == IF pattern = name THEN 1073741824 ELSE Len(pattern)

\* selectBestMatch with the comparison of scores reversed.
RECURSIVE BestFrom_LowerScore(_, _, _, _, _)
BestFrom_LowerScore(patterns, name, i, bestMatch, bestScore) ==
    IF i > Len(patterns) THEN bestMatch
    ELSE LET pattern == ToLower(patterns[i])
         IN  IF ~wildcardMatch(pattern, name)
             THEN BestFrom_LowerScore(patterns, name, i + 1, bestMatch, bestScore)
             ELSE IF matchScore(pattern, name) < bestScore
             THEN BestFrom_LowerScore(patterns, name, i + 1, pattern, matchScore(pattern, name))
             ELSE BestFrom_LowerScore(patterns, name, i + 1, bestMatch, bestScore)

\* selectBestMatch over the patterns in the order given: the first pattern
\* of the highest score wins; "" (the empty name) when none matches.
RECURSIVE BestFrom(_, _, _, _, _)
BestFrom(patterns, name, i, bestMatch, bestScore) ==
    IF i > Len(patterns) THEN bestMatch
    ELSE LET pattern == ToLower(patterns[i])
         IN  IF ~wildcardMatch(pattern, name)
             THEN BestFrom(patterns, name, i + 1, bestMatch, bestScore)
             ELSE IF matchScore(pattern, name) > bestScore
             THEN BestFrom(patterns, name, i + 1, pattern, matchScore(pattern, name))
             ELSE BestFrom(patterns, name, i + 1, bestMatch, bestScore)

selectBestMatch(patterns, name) == BestFrom(patterns, ToLower(name), 1, <<>>, -1)

\* The orders in which a range over a map may visit the keys in S.
Orders(S) ==
    {o \in [1..Cardinality(S) -> S] : \A i, j \in 1..Cardinality(S) : o[i] = o[j] => i = j}

\* Store.lookupWithWildcard on the map m: the results it can return, one
\* for each order in which the range over m collects the patterns.
lookupWithWildcard(m, hostname) ==
    LET h == ToLower(hostname)
        matching == {p \in DOMAIN m : isWildcard(p) /\ wildcardMatch(p, h)}
    IN  IF h \in DOMAIN m THEN {m[h]}
        ELSE IF matching = {} THEN {<<>>}
        ELSE {LET best == selectBestMatch(o, h)
              IN  IF best = <<>> THEN <<>> ELSE m[best] : o \in Orders(matching)}

IPsOf(entries) == [i \in 1..Len(entries) |-> entries[i].IP]

\* The lookups reading the maps under the name as given.
StoreLookup_CaseSensitive(st, q) ==
    CASE q.kind = "LookupV4" -> {IPsOf(MapGet(st.name4, q.name))}
      [] q.kind = "LookupV6" -> {IPsOf(MapGet(st.name6, q.name))}
      [] q.kind = "LookupAddr" -> {MapGet(st.addr, ParseIP(q.addr))}
      [] q.kind = "Len" -> {<<Len(st.records)>>}
      [] q.kind = "LookupV4WithWildcard" -> {MapGet(st.name4, q.name)}
      [] q.kind = "LookupV6WithWildcard" -> {MapGet(st.name6, q.name)}

\* The exported lookups of Store on the fields st, as the set of results a
\* call can return. q.kind names the method; q.name or q.addr is its argument.
StoreLookup(st, q) ==
    CASE q.kind = "LookupV4" -> {IPsOf(MapGet(st.name4, ToLower(q.name)))}
      [] q.kind = "LookupV6" -> {IPsOf(MapGet(st.name6, ToLower(q.name)))}
      [] q.kind = "LookupAddr" -> {MapGet(st.addr, ParseIP(q.addr))}
      [] q.kind = "Len" -> {<<Len(st.records)>>}
      [] q.kind = "LookupV4WithWildcard" -> lookupWithWildcard(st.name4, q.name)
      [] q.kind = "LookupV6WithWildcard" -> lookupWithWildcard(st.name6, q.name)

\* ------------------------------------------------------------------------
\* Keystore contents and the parser's verdict on them
\* ------------------------------------------------------------------------

\* A keystore value is a sequence of lines; a line holds the records it
\* parses to, or is longer than the scanner's buffer.
RecLine(rs) == [kind |-> "recs", recs |-> rs]
LongLine == [kind |-> "long", recs |-> <<>>]

DataA == <<RecLine(<<Rec(NameSvc, "10.0.0.1", 0, 1, NoHealth)>>)>>
DataB == <<RecLine(<<Rec(NameSvc, "10.0.0.2", 0, 1, HealthTCP)>>), RecLine(<<Rec(NameDb, "fd00::1", 0, 1, NoHealth)>>)>>
DataBad == <<RecLine(<<Rec(NameSvc, "10.0.0.1", 0, 1, NoHealth)>>), LongLine>>

DataSet == {DataA, DataB, DataBad}

RECURSIVE ConcatRecs(_, _)
ConcatRecs(data, i) ==
    IF i > Len(data) THEN <<>> ELSE data[i].recs \o ConcatRecs(data, i + 1)

\* hosts.ParseRecords: the records of every line, or the scanner's error.
ParseRecords(data) ==
    IF \E i \in 1..Len(data) : data[i].kind = "long"
    THEN [err |-> TRUE, records |-> <<>>]
    ELSE [err |-> FALSE, records |-> ConcatRecs(data, 1)]

\* ------------------------------------------------------------------------
\* State
\* ------------------------------------------------------------------------

VARIABLES
    kv,             \* keystore: the value under the configured key or prefix, or nil
    kvRev,          \* keystore: current revision
    reachable,      \* keystore: whether a Get from this client succeeds
    watchActive,    \* keystore: the current Watch call has a live server-side subscription
    srvQ,           \* clientv3 watcher channel: responses not yet taken by the Watch goroutine
    srvClosed,      \* clientv3 watcher channel: closed
    mode,           \* etcdHostsConfig.storageMode
    enableHealth,   \* etcdHostsConfig.enableHealthCfg (a checker was built)
    ch,             \* Storage.Watch: the buffered event channel (capacity 1)
    chClosed,       \* Storage.Watch: the event channel is closed
    wpc,            \* Storage.Watch goroutine: "none", "run", "done"
    pc,             \* synchronizer: "init", "watch" (top of the loop), "checked" (context seen
                    \* live, Watch not yet called), "recv", "backoff", "returned"
    startupErr,     \* what the OnStartup callback returned: "pending", "nil"
    watcherLaunched,\* go watchEtcd(...) was executed
    checkerLaunched,\* go eh.checker.Start(ctx) was executed
    lastLog,        \* the synchronizer's last log line
    syncOk,         \* etcdSyncTotal{status="success"} > 0
    dropped,        \* the synchronizer has seen a watch stream end
    store,          \* hosts.Store: name4, name6, addr, records
    storeRev,       \* revision of the keystore state given to the last Store.Update
    mu,             \* Store.mu: writer holds the lock, number of readers holding it
    upc,            \* Store.Update in progress: "idle", "built", "name4", "name6", "addr", "records", "unlock"
    updArg,         \* Store.Update: the record list it was called with (last call)
    updPrev,        \* Store.Update: the records the store held when it was called
    rpc,            \* lookup goroutines: "idle", "locked", "done"
    rq,             \* lookup goroutines: the call being made
    rview,          \* lookup goroutines: the records the store held when RLock was taken
    rres,           \* lookup goroutines: the value returned
    hcCfg,          \* healthcheck.Config: FailuresBeforeDown, SuccessBeforeUp, UnhealthyPolicy,
                    \* MaxConcurrent
    cache,          \* healthcheck.Cache.entries: key -> CacheEntry
    probed,         \* per key, the probe results (TRUE: the probe returned an error), oldest first
    calls,          \* per key, the healthy arguments of the Cache.Update calls, oldest first
    ck,             \* healthcheck.Checker: targets, running, stopCh, stopOnce, the context, the
                    \* calls of Start with their sweeps, and the goroutines of checkAll
    eh,             \* EtcdHosts: checker (non-nil), Fall.Zones, TTL
    hpc,            \* ServeDNS in flight: "idle", "other4", "other6"
    served,         \* the latest call of ServeDNS: q, the question and what the call did (whether
                    \* every entry of its name, of either family, was unhealthy; whether the store
                    \* held an entry of its name at its first lookup; the queries_total
                    \* result it counted; its store lookups; whether the store was republished
                    \* meanwhile), then the return code, the message written, the next plugin called
    lb,             \* WeightedBalancer.Select in flight: pc, its argument entries, the loop's
                    \* remaining and result, and first, the value of the first rand.IntN
    wm              \* the latest call of wildcardMatch: pattern, name and result

syncVars == <<kv, kvRev, reachable, watchActive, srvQ, srvClosed, mode, enableHealth,
              ch, chClosed, wpc, pc, startupErr, watcherLaunched, checkerLaunched,
              lastLog, syncOk, dropped, storeRev>>

muVars == <<mu, upc, updArg, updPrev, rpc, rq, rview, rres>>

hcVars == <<hcCfg, cache, probed, calls, ck>>

handlerVars == <<eh, hpc, served>>

libVars == <<lb, wm>>

nonSyncVars == <<muVars, hcVars, handlerVars, libVars>>

vars == <<syncVars, store, muVars, hcVars, handlerVars, libVars>>

\* ------------------------------------------------------------------------
\* internal/etcd: Storage over the keystore
\* ------------------------------------------------------------------------

\* Storage.Load: the value and the header revision, or an error, which a
\* Get under a cancelled context returns too.
Load ==
    IF reachable /\ ~ck.ctxDone THEN [err |-> FALSE, data |-> kv, rev |-> kvRev]
    ELSE [err |-> TRUE, data |-> NilBytes, rev |-> 0]

\* The WatchEvent the Watch goroutine builds from one keystore event:
\* single-key mode carries the value (nil for a delete), per-host mode
\* always carries nil data.
WatchEventOf(m, resp) ==
    IF m = "single"
    THEN [Data |-> IF resp.type = "delete" THEN NilBytes ELSE resp.value, Version |-> resp.rev, Err |-> FALSE]
    ELSE [Data |-> NilBytes, Version |-> resp.rev, Err |-> FALSE]

ErrEvent == [Data |-> NilBytes, Version |-> 0, Err |-> TRUE]

ErrResp == [type |-> "err", value |-> NilBytes, rev |-> 0]

\* A client writes the value d: the revision advances and a live watch is told.
KvPut(d) ==
    /\ kvRev < MaxRev
    /\ kv' = d
    /\ kvRev' = kvRev + 1
    /\ srvQ' = IF watchActive
               THEN Append(srvQ, [type |-> "put", value |-> d, rev |-> kvRev + 1])
               ELSE srvQ
    /\ UNCHANGED <<reachable, watchActive, srvClosed, mode, enableHealth, ch, chClosed, wpc, pc,
                   startupErr, watcherLaunched, checkerLaunched, lastLog, syncOk, dropped,
                   storeRev, store>>
    /\ UNCHANGED nonSyncVars

\* A client deletes the data; deleting what is absent changes nothing.
KvDelete ==
    /\ kvRev < MaxRev
    /\ kv # NilBytes
    /\ kv' = NilBytes
    /\ kvRev' = kvRev + 1
    /\ srvQ' = IF watchActive
               THEN Append(srvQ, [type |-> "delete", value |-> NilBytes, rev |-> kvRev + 1])
               ELSE srvQ
    /\ UNCHANGED <<reachable, watchActive, srvClosed, mode, enableHealth, ch, chClosed, wpc, pc,
                   startupErr, watcherLaunched, checkerLaunched, lastLog, syncOk, dropped,
                   storeRev, store>>
    /\ UNCHANGED nonSyncVars

\* The keystore becomes unreachable or reachable again for Get requests.
KvReachability ==
    /\ reachable' = ~reachable
    /\ UNCHANGED <<kv, kvRev, watchActive, srvQ, srvClosed, mode, enableHealth, ch, chClosed,
                   wpc, pc, startupErr, watcherLaunched, checkerLaunched, lastLog, syncOk,
                   dropped, storeRev, store>>
    /\ UNCHANGED nonSyncVars

\* The watch stream fails: the client delivers an error response (leader
\* lost, compaction) or just closes the watcher channel.
WatchDrop ==
    /\ watchActive
    /\ watchActive' = FALSE
    /\ \/ srvQ' = Append(srvQ, ErrResp) /\ UNCHANGED srvClosed
       \/ srvClosed' = TRUE /\ UNCHANGED srvQ
    /\ UNCHANGED <<kv, kvRev, reachable, mode, enableHealth, ch, chClosed, wpc, pc,
                   startupErr, watcherLaunched, checkerLaunched, lastLog, syncOk, dropped,
                   storeRev, store>>
    /\ UNCHANGED nonSyncVars

\* The goroutine of Storage.Watch: forward one response into the event
\* channel; after an error response, or when the watcher channel is closed,
\* close the event channel and return.
WatchPump ==
    /\ wpc = "run"
    /\ \/ /\ srvQ # <<>>
          /\ Len(ch) < 1
          /\ srvQ' = Tail(srvQ)
          /\ IF Head(srvQ).type = "err"
             THEN /\ ch' = Append(ch, ErrEvent)
                  /\ chClosed' = TRUE
                  /\ wpc' = "done"
             ELSE /\ ch' = Append(ch, WatchEventOf(mode, Head(srvQ)))
                  /\ UNCHANGED <<chClosed, wpc>>
       \/ /\ srvQ = <<>>
          /\ srvClosed
          /\ chClosed' = TRUE
          /\ wpc' = "done"
          /\ UNCHANGED <<srvQ, ch>>
    /\ UNCHANGED <<kv, kvRev, reachable, watchActive, srvClosed, mode, enableHealth, pc,
                   startupErr, watcherLaunched, checkerLaunched, lastLog, syncOk, dropped,
                   storeRev, store>>
    /\ UNCHANGED nonSyncVars

\* The goroutine of Storage.Watch finds the context done, in its select on
\* the watcher channel or in the send of an event: it closes the event
\* channel and returns; the client's watch ends with its context.
WatchCancelled ==
    /\ wpc = "run"
    /\ ck.ctxDone
    /\ chClosed' = TRUE
    /\ wpc' = "done"
    /\ watchActive' = FALSE
    /\ UNCHANGED <<kv, kvRev, reachable, srvQ, srvClosed, mode, enableHealth, ch, pc,
                   startupErr, watcherLaunched, checkerLaunched, lastLog, syncOk, dropped,
                   storeRev, store>>
    /\ UNCHANGED nonSyncVars

\* ------------------------------------------------------------------------
\* setup.go: the synchronizer
\* ------------------------------------------------------------------------

\* A sync attempt that leaves the store alone whenever there is no data.
Publish_NeverClears(got, clearOnNil, failLog, okLog) ==
    IF got.err THEN [log |-> failLog, store |-> store, rev |-> storeRev, ok |-> FALSE]
    ELSE IF got.data = NilBytes
    THEN [log |-> IF clearOnNil THEN "cleared" ELSE "no_data", store |-> store,
          rev |-> IF clearOnNil THEN got.rev ELSE storeRev, ok |-> TRUE]
    ELSE LET p == ParseRecords(got.data)
         IN  IF p.err
             THEN [log |-> IF clearOnNil THEN "parse_failed" ELSE failLog,
                   store |-> store, rev |-> storeRev, ok |-> FALSE]
             ELSE [log |-> okLog, store |-> BuildStore(p.records), rev |-> got.rev, ok |-> TRUE]

\* What one sync attempt does with the store, given the bytes it obtained
\* (got.err: the keystore call failed), and whether a nil result clears the
\* store (watchEtcd) or leaves it (loadFromEtcd).
\* Result: the log line, the store and the revision it now holds.
Publish(got, clearOnNil, failLog, okLog) ==
    IF got.err THEN [log |-> failLog, store |-> store, rev |-> storeRev, ok |-> FALSE]
    ELSE IF got.data = NilBytes
    THEN IF clearOnNil
         THEN [log |-> "cleared", store |-> BuildStore(<<>>), rev |-> got.rev, ok |-> TRUE]
         ELSE [log |-> "no_data", store |-> store, rev |-> storeRev, ok |-> TRUE]
    ELSE LET p == ParseRecords(got.data)
         IN  IF p.err
             THEN [log |-> IF clearOnNil THEN "parse_failed" ELSE failLog,
                   store |-> store, rev |-> storeRev, ok |-> FALSE]
             ELSE [log |-> okLog, store |-> BuildStore(p.records), rev |-> got.rev, ok |-> TRUE]

\* loadFromEtcd as OnStartup calls it.
loadFromEtcd == Publish(Load, FALSE, "load_failed", "loaded")

\* A startup that hands the failure of the initial load to the server.
StartupResult_Propagates(loaded) == IF loaded.ok THEN "nil" ELSE "error"

\* What OnStartup returns for the outcome of the initial load: the failure
\* is logged as a warning and nil is returned.
StartupResult(loaded) == "nil"

\* The OnStartup callback: initial load, then the watcher and the checker.
OnStartup ==
    /\ pc = "init"
    /\ LET r == loadFromEtcd
       IN  /\ store' = r.store
           /\ storeRev' = r.rev
           /\ lastLog' = r.log
           /\ syncOk' = (syncOk \/ r.ok)
           /\ startupErr' = StartupResult(r)
    /\ watcherLaunched' = TRUE
    /\ checkerLaunched' = enableHealth
    /\ pc' = "watch"
    /\ UNCHANGED <<kv, kvRev, reachable, watchActive, srvQ, srvClosed, mode, enableHealth,
                   ch, chClosed, wpc, dropped>>
    /\ UNCHANGED nonSyncVars

\* A loop that calls Watch without looking at the context.
CheckCtx_Never ==
    /\ pc = "watch"
    /\ pc' = "checked"
    /\ UNCHANGED <<kv, kvRev, reachable, watchActive, srvQ, srvClosed, mode, enableHealth,
                   ch, chClosed, wpc, startupErr, watcherLaunched, checkerLaunched, lastLog,
                   syncOk, dropped, storeRev, store>>
    /\ UNCHANGED nonSyncVars

\* watchEtcd, the top of its loop: return when the context is done.
CheckCtx ==
    /\ pc = "watch"
    /\ pc' = IF ck.ctxDone THEN "returned" ELSE "checked"
    /\ UNCHANGED <<kv, kvRev, reachable, watchActive, srvQ, srvClosed, mode, enableHealth,
                   ch, chClosed, wpc, startupErr, watcherLaunched, checkerLaunched, lastLog,
                   syncOk, dropped, storeRev, store>>
    /\ UNCHANGED nonSyncVars

\* watchEtcd: eventCh := storage.Watch(ctx). The subscription starts at the
\* keystore's current revision; an unreachable keystore answers with an
\* error, and under a cancelled context the client hands out a closed
\* watcher channel.
Subscribe ==
    /\ pc = "checked"
    /\ pc' = "recv"
    /\ ch' = <<>>
    /\ chClosed' = FALSE
    /\ wpc' = "run"
    /\ srvClosed' = ck.ctxDone
    /\ watchActive' = (reachable /\ ~ck.ctxDone)
    /\ srvQ' = IF reachable \/ ck.ctxDone THEN <<>> ELSE <<ErrResp>>
    /\ UNCHANGED <<kv, kvRev, reachable, mode, enableHealth, startupErr, watcherLaunched,
                   checkerLaunched, lastLog, syncOk, dropped, storeRev, store>>
    /\ UNCHANGED nonSyncVars

\* The bytes the event loop works on: the event's own, or a reload when the
\* event carries nil data.
EventBytes(event) ==
    IF event.Data # NilBytes THEN [err |-> FALSE, data |-> event.Data, rev |-> event.Version]
    ELSE Load

\* An event loop that publishes the (empty) parse result before looking at
\* the error.
HandleEvent_FailClears(event) ==
    LET r == Publish(EventBytes(event), TRUE, "reload_failed", "reloaded")
    IN  IF r.ok THEN r ELSE [r EXCEPT !.store = BuildStore(<<>>)]

\* The body of "for event := range eventCh" for one event.
HandleEvent(event) == Publish(EventBytes(event), TRUE, "reload_failed", "reloaded")

\* An event loop that goes on to the next event after an error event.
Recv_ErrContinues ==
    /\ pc = "recv"
    /\ ch # <<>>
    /\ ch' = Tail(ch)
    /\ IF Head(ch).Err
       THEN /\ lastLog' = "watch_error"
            /\ dropped' = TRUE
            /\ UNCHANGED <<pc, store, storeRev, syncOk>>
       ELSE /\ LET r == HandleEvent(Head(ch))
               IN  /\ store' = r.store
                   /\ storeRev' = r.rev
                   /\ lastLog' = r.log
                   /\ syncOk' = (syncOk \/ r.ok)
            /\ UNCHANGED <<pc, dropped>>
    /\ UNCHANGED <<kv, kvRev, reachable, watchActive, srvQ, srvClosed, mode, enableHealth,
                   chClosed, wpc, startupErr, watcherLaunched, checkerLaunched>>
    /\ UNCHANGED nonSyncVars

\* watchEtcd takes the next event from the channel.
Recv ==
    /\ pc = "recv"
    /\ ch # <<>>
    /\ ch' = Tail(ch)
    /\ IF Head(ch).Err
       THEN /\ lastLog' = "watch_error"
            /\ pc' = "backoff"
            /\ dropped' = TRUE
            /\ UNCHANGED <<store, storeRev, syncOk>>
       ELSE /\ LET r == HandleEvent(Head(ch))
               IN  /\ store' = r.store
                   /\ storeRev' = r.rev
                   /\ lastLog' = r.log
                   /\ syncOk' = (syncOk \/ r.ok)
            /\ UNCHANGED <<pc, dropped>>
    /\ UNCHANGED <<kv, kvRev, reachable, watchActive, srvQ, srvClosed, mode, enableHealth,
                   chClosed, wpc, startupErr, watcherLaunched, checkerLaunched>>
    /\ UNCHANGED nonSyncVars

\* watchEtcd finds the event channel closed and drained: the range loop ends.
RecvClosed ==
    /\ pc = "recv"
    /\ ch = <<>>
    /\ chClosed
    /\ pc' = "backoff"
    /\ dropped' = TRUE
    /\ UNCHANGED <<kv, kvRev, reachable, watchActive, srvQ, srvClosed, mode, enableHealth,
                   ch, chClosed, wpc, startupErr, watcherLaunched, checkerLaunched, lastLog,
                   syncOk, storeRev, store>>
    /\ UNCHANGED nonSyncVars

\* watchEtcd: the one second delay before it reconnects.
Backoff ==
    /\ pc = "backoff"
    /\ pc' = "watch"
    /\ UNCHANGED <<kv, kvRev, reachable, watchActive, srvQ, srvClosed, mode, enableHealth,
                   ch, chClosed, wpc, startupErr, watcherLaunched, checkerLaunched, lastLog,
                   syncOk, dropped, storeRev, store>>
    /\ UNCHANGED nonSyncVars

\* watchEtcd, the select after the loop over the events: the context is
\* done and watchEtcd returns.
BackoffCancelled ==
    /\ pc = "backoff"
    /\ ck.ctxDone
    /\ pc' = "returned"
    /\ UNCHANGED <<kv, kvRev, reachable, watchActive, srvQ, srvClosed, mode, enableHealth,
                   ch, chClosed, wpc, startupErr, watcherLaunched, checkerLaunched, lastLog,
                   syncOk, dropped, storeRev, store>>
    /\ UNCHANGED nonSyncVars

SyncInit ==
    /\ kv \in DataSet \cup {NilBytes}
    /\ kvRev = 1
    /\ reachable \in BOOLEAN
    /\ watchActive = FALSE
    /\ srvQ = <<>>
    /\ srvClosed = FALSE
    /\ mode \in {"single", "perhost"}
    /\ enableHealth \in BOOLEAN
    /\ ch = <<>>
    /\ chClosed = FALSE
    /\ wpc = "none"
    /\ pc = "init"
    /\ startupErr = "pending"
    /\ watcherLaunched = FALSE
    /\ checkerLaunched = FALSE
    /\ lastLog = "none"
    /\ syncOk = FALSE
    /\ dropped = FALSE
    /\ storeRev = 0

\* ------------------------------------------------------------------------
\* internal/hosts: Store.Update against concurrent lookups
\* ------------------------------------------------------------------------

Readers == 1..NumReaders

\* Record lists handed to Store.Update.
RecsOne == <<Rec(NameSvc, "10.0.0.1", 0, 1, NoHealth)>>
RecsTwo == <<Rec(NameSvcUpper, "10.0.0.2", 0, 1, NoHealth), Rec(NameWild, "10.0.0.1", 0, 1, NoHealth),
             Rec(NameSvc, "fd00::1", 0, 1, NoHealth)>>

UpdateArgs == {<<>>, RecsOne, RecsTwo}

LookupCalls ==
    {[kind |-> k, name |-> n, addr |-> ""] :
        k \in {"LookupV4", "LookupV6", "LookupV4WithWildcard", "LookupV6WithWildcard"},
        n \in {NameSvc, NameSub}}
    \cup {[kind |-> "LookupAddr", name |-> <<>>, addr |-> a] : a \in {"10.0.0.1", "bogus"}}
    \cup {[kind |-> "Len", name |-> <<>>, addr |-> ""]}

\* sync.RWMutex: a writer that takes the lock without waiting for readers.
CanLock_IgnoresReaders(m) == ~m.writer

\* sync.RWMutex: when Lock and RLock can be taken.
CanLock(m) == ~m.writer /\ m.readers = 0

CanRLock(m) == ~m.writer

\* Store.Update(records): the maps are built before the lock is taken.
UpdateCall(records) ==
    /\ upc = "idle"
    /\ upc' = "built"
    /\ updArg' = records
    /\ updPrev' = store.records
    /\ UNCHANGED <<syncVars, hcVars, handlerVars, libVars, store, mu, rpc, rq, rview, rres>>

\* Store.Update: s.mu.Lock()
UpdateLock ==
    /\ upc = "built"
    /\ CanLock(mu)
    /\ mu' = [mu EXCEPT !.writer = TRUE]
    /\ upc' = "name4"
    /\ UNCHANGED <<syncVars, hcVars, handlerVars, libVars, store, updArg, updPrev, rpc, rq, rview, rres>>

\* Store.Update: the four assignments made under the lock, one at a time.
UpdateAssign ==
    /\ upc \in {"name4", "name6", "addr", "records"}
    /\ LET built == BuildStore(updArg)
       IN  store' = CASE upc = "name4" -> [store EXCEPT !.name4 = built.name4]
                      [] upc = "name6" -> [store EXCEPT !.name6 = built.name6]
                      [] upc = "addr" -> [store EXCEPT !.addr = built.addr]
                      [] upc = "records" -> [store EXCEPT !.records = built.records]
    /\ upc' = CASE upc = "name4" -> "name6"
                [] upc = "name6" -> "addr"
                [] upc = "addr" -> "records"
                [] upc = "records" -> "unlock"
    /\ UNCHANGED <<syncVars, hcVars, handlerVars, libVars, mu, updArg, updPrev, rpc, rq, rview, rres>>

\* Store.Update: s.mu.Unlock() and return.
UpdateUnlock ==
    /\ upc = "unlock"
    /\ mu' = [mu EXCEPT !.writer = FALSE]
    /\ upc' = "idle"
    /\ UNCHANGED <<syncVars, hcVars, handlerVars, libVars, store, updArg, updPrev, rpc, rq, rview, rres>>

\* A lookup is called: it takes the read lock. LookupAddr returns nil
\* without locking when its argument is no IP address.
LookupCall(r, q) ==
    /\ rpc[r] \in {"idle", "done"}
    /\ rq' = [rq EXCEPT ![r] = q]
    /\ IF q.kind = "LookupAddr" /\ ParseIP(q.addr) = ""
       THEN /\ rpc' = [rpc EXCEPT ![r] = "done"]
            /\ rres' = [rres EXCEPT ![r] = <<>>]
            /\ rview' = [rview EXCEPT ![r] = store.records]
            /\ UNCHANGED mu
       ELSE /\ CanRLock(mu)
            /\ mu' = [mu EXCEPT !.readers = @ + 1]
            /\ rpc' = [rpc EXCEPT ![r] = "locked"]
            /\ rview' = [rview EXCEPT ![r] = store.records]
            /\ rres' = [rres EXCEPT ![r] = <<>>]
    /\ UNCHANGED <<syncVars, hcVars, handlerVars, libVars, store, upc, updArg, updPrev>>

\* The lookup reads the store, releases the read lock and returns.
LookupReturn(r) ==
    /\ rpc[r] = "locked"
    /\ \E res \in StoreLookup(store, rq[r]) : rres' = [rres EXCEPT ![r] = res]
    /\ mu' = [mu EXCEPT !.readers = @ - 1]
    /\ rpc' = [rpc EXCEPT ![r] = "done"]
    /\ UNCHANGED <<syncVars, hcVars, handlerVars, libVars, store, upc, updArg, updPrev, rq, rview>>

MuInit ==
    /\ mu = [writer |-> FALSE, readers |-> 0]
    /\ upc = "idle"
    /\ updArg = <<>>
    /\ updPrev = <<>>
    /\ rpc = [r \in Readers |-> "idle"]
    /\ rq = [r \in Readers |-> [kind |-> "Len", name |-> <<>>, addr |-> ""]]
    /\ rview = [r \in Readers |-> <<>>]
    /\ rres = [r \in Readers |-> <<>>]

\* The synchronizer before OnStartup, with nothing else going on.
SyncIdle ==
    /\ kv = NilBytes
    /\ kvRev = 1
    /\ reachable = TRUE
    /\ watchActive = FALSE
    /\ srvQ = <<>>
    /\ srvClosed = FALSE
    /\ mode = "single"
    /\ enableHealth = FALSE
    /\ ch = <<>>
    /\ chClosed = FALSE
    /\ wpc = "none"
    /\ pc = "init"
    /\ startupErr = "pending"
    /\ watcherLaunched = FALSE
    /\ checkerLaunched = FALSE
    /\ lastLog = "none"
    /\ syncOk = FALSE
    /\ dropped = FALSE
    /\ storeRev = 0

\* ------------------------------------------------------------------------
\* internal/healthcheck: Cache and Checker.checkOne
\* ------------------------------------------------------------------------

\* Default configuration values of the health checker.
DefaultFailuresBeforeDown == 3
DefaultSuccessBeforeUp == 1
DefaultMaxConcurrent == 10

\* The check types NewChecker creates a probe for.
ProbeTypes == {"tcp", "http", "https", "icmp"}

\* Target.CacheKey and the key of Checker.IsHealthy: "%s:%s" of the host
\* name and the text of the IP.
CacheKey(hostname, ip) == hostname \o <<":", ip>>

Target(h, ip, hc) == [Hostname |-> h, IP |-> ip, Health |-> hc]

\* The targets checkOne is called with: two with a TCP check, one whose
\* check type has no probe, one without a health check.
CheckTargets ==
    {Target(NameSvc, "10.0.0.1", HealthTCP), Target(NameSvc, "10.0.0.2", HealthTCP),
     Target(NameDb, "10.0.0.1", [Type |-> "grpc", Port |-> 80]), Target(NameDb, "fd00::1", NoHealth)}

\* The target of a record whose hostname is a wildcard pattern.
WildTarget == Target(NameWild, "10.0.0.1", HealthTCP)

CheckKeys == {CacheKey(t.Hostname, t.IP) : t \in CheckTargets \cup {WildTarget}}

\* A Get that reports unknown keys as unhealthy.
CacheGet_Pessimistic(c, key) ==
    IF key \notin DOMAIN c THEN <<FALSE, FALSE>> ELSE <<c[key].Healthy, TRUE>>

\* Cache.Get: (healthy, found).
CacheGet(c, key) ==
    IF key \notin DOMAIN c THEN <<TRUE, FALSE>> ELSE <<c[key].Healthy, TRUE>>

\* Cache.IsHealthy
CacheIsHealthy(c, key) == CacheGet(c, key)[1]

\* Checker.IsHealthy
CheckerIsHealthy(c, hostname, ip) == CacheIsHealthy(c, CacheKey(hostname, ip))

\* An Update that keeps the other counter running.
CacheUpdate_NoReset(c, key, healthy, failuresBeforeDown, successBeforeUp) ==
    LET entry == IF key \in DOMAIN c THEN c[key]
                 ELSE [Healthy |-> TRUE, Failures |-> 0, Successes |-> 0]
        e1 == IF healthy THEN [entry EXCEPT !.Successes = @ + 1]
              ELSE [entry EXCEPT !.Failures = @ + 1]
        e2 == IF healthy /\ e1.Successes >= successBeforeUp THEN [e1 EXCEPT !.Healthy = TRUE]
              ELSE IF ~healthy /\ e1.Failures >= failuresBeforeDown THEN [e1 EXCEPT !.Healthy = FALSE]
              ELSE e1
    IN  MapPut(c, key, e2)

\* An Update whose thresholds must be exceeded, not reached.
CacheUpdate_Strict(c, key, healthy, failuresBeforeDown, successBeforeUp) ==
    LET entry == IF key \in DOMAIN c THEN c[key]
                 ELSE [Healthy |-> TRUE, Failures |-> 0, Successes |-> 0]
        e1 == IF healthy THEN [entry EXCEPT !.Failures = 0, !.Successes = @ + 1]
              ELSE [entry EXCEPT !.Successes = 0, !.Failures = @ + 1]
        e2 == IF healthy /\ e1.Successes > successBeforeUp THEN [e1 EXCEPT !.Healthy = TRUE]
              ELSE IF ~healthy /\ e1.Failures > failuresBeforeDown THEN [e1 EXCEPT !.Healthy = FALSE]
              ELSE e1
    IN  MapPut(c, key, e2)

\* Cache.Update: the entries after one result for key is recorded
\* (LastCheck, which no lookup reads, is left out).
CacheUpdate(c, key, healthy, failuresBeforeDown, successBeforeUp) ==
    LET entry == IF key \in DOMAIN c THEN c[key]
                 ELSE [Healthy |-> TRUE, Failures |-> 0, Successes |-> 0]
        e1 == IF healthy THEN [entry EXCEPT !.Failures = 0, !.Successes = @ + 1]
              ELSE [entry EXCEPT !.Successes = 0, !.Failures = @ + 1]
        e2 == IF healthy /\ e1.Successes >= successBeforeUp THEN [e1 EXCEPT !.Healthy = TRUE]
              ELSE IF ~healthy /\ e1.Failures >= failuresBeforeDown THEN [e1 EXCEPT !.Healthy = FALSE]
              ELSE e1
    IN  MapPut(c, key, e2)

\* Checker.checkOne(target) when the probe, if one is run, returns the
\* error err: nothing without a health check, a success when the check
\* type has no probe, and the probe's verdict otherwise.
checkOneCache(target, err) ==
    LET key == CacheKey(target.Hostname, target.IP)
    IN  IF target.Health = NoHealth
        THEN UNCHANGED <<cache, probed, calls>>
        ELSE IF target.Health.Type \notin ProbeTypes
        THEN /\ cache' = CacheUpdate(cache, key, TRUE, hcCfg.FailuresBeforeDown, hcCfg.SuccessBeforeUp)
             /\ calls' = [calls EXCEPT ![key] = Append(@, TRUE)]
             /\ UNCHANGED probed
        ELSE /\ cache' = CacheUpdate(cache, key, ~err, hcCfg.FailuresBeforeDown, hcCfg.SuccessBeforeUp)
             /\ calls' = [calls EXCEPT ![key] = Append(@, ~err)]
             /\ probed' = [probed EXCEPT ![key] = Append(@, err)]

\* checkOne called on its own, the checker's loop left aside.
checkOne(target, err) ==
    /\ checkOneCache(target, err)
    /\ UNCHANGED <<syncVars, store, muVars, hcCfg, ck, handlerVars, libVars>>

\* The goroutines that call Checker.Start.
Starters == {1, 2}

\* Record lists UpdateTargets is called with: none; two records with a
\* health check around one without; one hostname and IP pair twice.
TargetRecs ==
    {<<>>,
     <<Rec(NameSvc, "10.0.0.1", 0, 1, HealthTCP), Rec(NameDb, "fd00::1", 0, 1, NoHealth),
       Rec(NameSvc, "10.0.0.2", 0, 1, HealthTCP)>>,
     <<Rec(NameSvc, "10.0.0.1", 0, 1, HealthTCP), Rec(NameSvc, "10.0.0.1", 0, 1, HealthTCP),
       Rec(NameSvc, "10.0.0.2", 0, 1, HealthTCP)>>}

\* A target list made of every record, with or without a health check.
RECURSIVE TargetsOf_All(_, _)
TargetsOf_All(records, i) ==
    IF i > Len(records) THEN <<>>
    ELSE <<Target(records[i].Hostname, records[i].IP, records[i].Health)>>
         \o TargetsOf_All(records, i + 1)

\* UpdateTargets, the loop over the records from the i-th on: a target for
\* each record whose Health is not nil, in the order of the records.
RECURSIVE TargetsOf(_, _)
TargetsOf(records, i) ==
    IF i > Len(records) THEN <<>>
    ELSE (IF records[i].Health # NoHealth
          THEN <<Target(records[i].Hostname, records[i].IP, records[i].Health)>>
          ELSE <<>>) \o TargetsOf(records, i + 1)

\* The records a checker is given before its loop is studied, and its
\* targets then.
CkRecords == <<Rec(NameSvc, "10.0.0.1", 0, 1, HealthTCP), Rec(NameSvc, "10.0.0.2", 0, 1, HealthTCP)>>

CkTargets == TargetsOf(CkRecords, 1)

\* A call of Start: pc is "idle" (not called), "noop" (returned at once),
\* "sweep" (in checkAll), "select" (in the select of the loop) or
\* "returned"; own is the stop channel the call made, ch the one its select
\* waits on; snap is the copy of the targets its checkAll made, unspawned
\* the part of it checkAll has no goroutine for yet, checked the positions
\* of snap whose checkOne has returned.
LoopAt(at) ==
    [pc |-> at, own |-> 0, ch |-> 0, snap |-> <<>>, unspawned |-> <<>>, checked |-> {}]

\* The Checker as NewChecker returns it, with a context that is not
\* cancelled. Stop channels are numbered from 1, 0 is the nil channel;
\* probes are the goroutines of checkAll: from is the call of Start whose
\* checkAll started it (its WaitGroup and semaphore), k the position of its
\* target t in that checkAll's copy, sem whether it holds the semaphore;
\* stops counts the calls of Stop since Start was last accepted (2: two or
\* more), given is the record list of the latest call of UpdateTargets.
CkNew ==
    [running |-> FALSE, stopCh |-> 0, closed |-> {}, once |-> FALSE, ctxDone |-> FALSE,
     panicked |-> FALSE, sweeps |-> 0, stops |-> 0, given |-> <<>>, targets |-> <<>>, probes |-> {},
     loops |-> [i \in Starters |-> LoopAt("idle")]]

\* Checker.stop() without the test of c.running.
stop_Unguarded(c) ==
    LET d == IF c.once THEN c
             ELSE [c EXCEPT !.once = TRUE, !.closed = @ \cup {c.stopCh},
                            !.panicked = @ \/ c.stopCh = 0 \/ c.stopCh \in c.closed]
    IN  [d EXCEPT !.running = FALSE]

\* Checker.stop(): nothing when not running; else the stop channel is
\* closed through stopOnce and running is cleared. Closing the nil channel
\* or a closed one panics.
stop(c) ==
    IF ~c.running THEN c
    ELSE LET d == IF c.once THEN c
                  ELSE [c EXCEPT !.once = TRUE, !.closed = @ \cup {c.stopCh},
                                 !.panicked = @ \/ c.stopCh = 0 \/ c.stopCh \in c.closed]
         IN  [d EXCEPT !.running = FALSE]

\* Start going on whether or not the checker runs.
StartAccepted_Always(c) == TRUE

\* Start goes on past its test of c.running.
StartAccepted(c) == ~c.running

ckRest == <<syncVars, store, muVars, hcCfg, handlerVars, libVars>>

\* Checker.UpdateTargets(records): under c.mu, which every other access to
\* c.targets holds too, the target list is replaced.
UpdateTargets(records) ==
    /\ ck' = [ck EXCEPT !.given = records, !.targets = TargetsOf(records, 1)]
    /\ UNCHANGED <<ckRest, cache, probed, calls>>

\* checkAll begins in call i: it copies c.targets under the read lock.
BeginSweep(c, i) ==
    [c EXCEPT !.loops[i].pc = "sweep", !.loops[i].snap = c.targets,
              !.loops[i].unspawned = c.targets, !.loops[i].checked = {}]

\* Checker.Start(ctx) is called: it returns at once when the checker runs,
\* else it sets running, makes a stop channel and a new stopOnce, and enters
\* checkAll.
Start(i) ==
    /\ ck.loops[i].pc \in {"idle", "noop", "returned"}
    /\ IF StartAccepted(ck)
       THEN /\ ck.stopCh < MaxRuns
            /\ ck' = BeginSweep([ck EXCEPT !.running = TRUE, !.stopCh = @ + 1, !.once = FALSE,
                                           !.stops = 0, !.loops[i].own = ck.stopCh + 1,
                                           !.loops[i].ch = 0], i)
       ELSE ck' = [ck EXCEPT !.loops[i] = LoopAt("noop")]
    /\ UNCHANGED <<ckRest, cache, probed, calls>>

\* The values the read of c.stopCh in the select of call i can give: the
\* read is not under c.mu, so next to the channel of the latest Start it
\* can still give the channel call i made itself.
StopChRead(c, i) == {c.loops[i].own, c.stopCh}

\* Call i leaves checkAll and evaluates the select of its loop; the
\* goroutines checkAll did not wait for go on without it.
EnterSelect(c, i, read) ==
    [c EXCEPT !.loops[i].pc = "select", !.loops[i].ch = read, !.loops[i].snap = <<>>,
              !.loops[i].unspawned = <<>>, !.loops[i].checked = {}]

\* The goroutines started by the checkAll of call i that have not returned,
\* and those of them that hold its semaphore.
Group(c, i) == {p \in c.probes : p.from = i}

Holders(c, i) == {p \in Group(c, i) : p.sem}

\* checkAll, one iteration of its loop over the targets: return when the
\* context is cancelled, else start the goroutine of the next target.
Spawn(i) ==
    /\ ck.loops[i].pc = "sweep"
    /\ ck.loops[i].unspawned # <<>>
    /\ IF ck.ctxDone
       THEN \E read \in StopChRead(ck, i) : ck' = EnterSelect(ck, i, read)
       ELSE LET k == Len(ck.loops[i].snap) - Len(ck.loops[i].unspawned) + 1
            IN  ck' = [ck EXCEPT !.loops[i].unspawned = Tail(@),
                                 !.probes = @ \cup {[from |-> i, k |-> k, sem |-> FALSE,
                                                     t |-> Head(ck.loops[i].unspawned)]}]
    /\ UNCHANGED <<ckRest, cache, probed, calls>>

\* checkAll returns: at once when its copy is empty, else when wg.Wait()
\* returns.
Wait(i) ==
    /\ ck.loops[i].pc = "sweep"
    /\ ck.loops[i].unspawned = <<>>
    /\ ck.loops[i].snap = <<>> \/ Group(ck, i) = {}
    /\ \E read \in StopChRead(ck, i) : ck' = EnterSelect(ck, i, read)
    /\ UNCHANGED <<ckRest, cache, probed, calls>>

\* A semaphore that admits one goroutine more than its capacity.
SemFree_OneMore(c, i) == Cardinality(Holders(c, i)) <= hcCfg.MaxConcurrent

\* The send on the semaphore of the checkAll of call i can proceed: fewer
\* than MaxConcurrent goroutines hold it.
SemFree(c, i) == Cardinality(Holders(c, i)) < hcCfg.MaxConcurrent

\* The goroutine of position k of the checkAll of call i takes the semaphore.
Acquire(i, k) ==
    /\ \E p \in Group(ck, i) :
          /\ p.k = k /\ ~p.sem
          /\ SemFree(ck, i)
          /\ ck' = [ck EXCEPT !.probes = (@ \ {p}) \cup {[p EXCEPT !.sem = TRUE]}]
    /\ UNCHANGED <<ckRest, cache, probed, calls>>

\* The goroutine, holding the semaphore, runs checkOne, whose probe returns
\* the error err, gives the semaphore back and returns.
Probe(i, k, err) ==
    /\ \E p \in Group(ck, i) :
          /\ p.k = k /\ p.sem
          /\ ck' = [ck EXCEPT !.probes = @ \ {p},
                              !.loops[i].checked = IF ck.loops[i].pc = "sweep"
                                                   THEN @ \cup {k} ELSE @]
          /\ checkOneCache(p.t, err)
    /\ UNCHANGED ckRest

\* The goroutine, waiting for the semaphore, finds the context cancelled
\* and returns without a check.
Quit(i, k) ==
    /\ ck.ctxDone
    /\ \E p \in Group(ck, i) :
          /\ p.k = k /\ ~p.sem
          /\ ck' = [ck EXCEPT !.probes = @ \ {p}]
    /\ UNCHANGED <<ckRest, cache, probed, calls>>

\* The select of Start: the ticker fires and the next checkAll begins.
Tick(i) ==
    /\ ck.loops[i].pc = "select"
    /\ ck.sweeps < MaxSweeps
    /\ ck' = BeginSweep([ck EXCEPT !.sweeps = @ + 1], i)
    /\ UNCHANGED <<ckRest, cache, probed, calls>>

\* The select of Start: the stop channel it waits on is closed, Start returns.
LoopStopped(i) ==
    /\ ck.loops[i].pc = "select"
    /\ ck.loops[i].ch \in ck.closed
    /\ ck' = [ck EXCEPT !.loops[i] = LoopAt("returned")]
    /\ UNCHANGED <<ckRest, cache, probed, calls>>

\* The select of Start: the context is done, Start calls stop() and returns.
LoopCancelled(i) ==
    /\ ck.loops[i].pc = "select"
    /\ ck.ctxDone
    /\ ck' = [stop(ck) EXCEPT !.loops[i] = LoopAt("returned")]
    /\ UNCHANGED <<ckRest, cache, probed, calls>>

\* Checker.Stop()
Stop ==
    /\ ck' = [stop(ck) EXCEPT !.stops = IF @ < 2 THEN @ + 1 ELSE @]
    /\ UNCHANGED <<ckRest, cache, probed, calls>>

\* The context given to Start is cancelled.
Cancel ==
    /\ ~ck.ctxDone
    /\ ck' = [ck EXCEPT !.ctxDone = TRUE]
    /\ UNCHANGED <<ckRest, cache, probed, calls>>

\* The Config a Checker works with: NewChecker puts the defaults in place
\* of zero values.
Config(f, s, policy, maxConcurrent) ==
    [FailuresBeforeDown |-> IF f = 0 THEN DefaultFailuresBeforeDown ELSE f,
     SuccessBeforeUp |-> IF s = 0 THEN DefaultSuccessBeforeUp ELSE s,
     UnhealthyPolicy |-> policy,
     MaxConcurrent |-> IF maxConcurrent = 0 THEN DefaultMaxConcurrent ELSE maxConcurrent]

\* healthcheck.NewChecker(cfg) with the given thresholds and policy.
NewChecker(f, s, policy) ==
    /\ hcCfg = Config(f, s, policy, 0)
    /\ cache = <<>>
    /\ probed = [k \in CheckKeys |-> <<>>]
    /\ calls = [k \in CheckKeys |-> <<>>]
    /\ ck = CkNew

\* Fewer than n checks of the target have been made.
Unchecked(t, n) == Len(calls[CacheKey(t.Hostname, t.IP)]) < n

\* ------------------------------------------------------------------------
\* internal/loadbalance: WeightedBalancer
\* ------------------------------------------------------------------------

RECURSIVE SumPositive(_, _)
SumPositive(entries, i) ==
    IF i > Len(entries) THEN 0
    ELSE (IF entries[i].Weight > 0 THEN entries[i].Weight ELSE 0) + SumPositive(entries, i + 1)

\* The loop of weightedSelect without the test for a positive weight.
RECURSIVE FirstOver_CountsAll(_, _, _, _)
FirstOver_CountsAll(entries, r, i, cumulative) ==
    IF i > Len(entries) THEN Len(entries)
    ELSE IF r < cumulative + entries[i].Weight THEN i
    ELSE FirstOver_CountsAll(entries, r, i + 1, cumulative + entries[i].Weight)

\* The loop of weightedSelect comparing with r <= cumulative.
RECURSIVE FirstOver_OffByOne(_, _, _, _)
FirstOver_OffByOne(entries, r, i, cumulative) ==
    IF i > Len(entries) THEN Len(entries)
    ELSE IF entries[i].Weight > 0
    THEN IF r <= cumulative + entries[i].Weight THEN i
         ELSE FirstOver_OffByOne(entries, r, i + 1, cumulative + entries[i].Weight)
    ELSE FirstOver_OffByOne(entries, r, i + 1, cumulative)

\* The loop of weightedSelect: the first entry of positive weight whose
\* cumulative weight exceeds r, else the last index.
RECURSIVE FirstOver(_, _, _, _)
FirstOver(entries, r, i, cumulative) ==
    IF i > Len(entries) THEN Len(entries)
    ELSE IF entries[i].Weight > 0
    THEN IF r < cumulative + entries[i].Weight THEN i
         ELSE FirstOver(entries, r, i + 1, cumulative + entries[i].Weight)
    ELSE FirstOver(entries, r, i + 1, cumulative)

\* The values rand.IntN can return in weightedSelect (none is drawn for a
\* single entry).
Draws(entries) ==
    IF Len(entries) = 1 THEN {0}
    ELSE IF SumPositive(entries, 1) = 0 THEN 0..(Len(entries) - 1)
    ELSE 0..(SumPositive(entries, 1) - 1)

\* weightedSelect when rand.IntN returns r: the (1-based) index selected.
weightedSelect(entries, r) ==
    IF Len(entries) = 1 THEN 1
    ELSE IF SumPositive(entries, 1) = 0 THEN r + 1
    ELSE FirstOver(entries, r, 1, 0)

\* The removal that drops the last entry and keeps the selected one.
RemoveSwap_DropLast(remaining, selected) == SubSeq(remaining, 1, Len(remaining) - 1)

\* remaining[selected] = remaining[last]; remaining = remaining[:last]
RemoveSwap(remaining, selected) ==
    [i \in 1..(Len(remaining) - 1) |-> IF i = selected THEN remaining[Len(remaining)] ELSE remaining[i]]

\* The loop of Select: every order of IPs it can produce from remaining.
RECURSIVE Shuffle(_)
Shuffle(remaining) ==
    IF remaining = <<>> THEN {<<>>}
    ELSE UNION {LET selected == weightedSelect(remaining, r)
                IN  {<<remaining[selected].IP>> \o rest : rest \in Shuffle(RemoveSwap(remaining, selected))}
                : r \in Draws(remaining)}

RECURSIVE FilterHealthy(_, _)
FilterHealthy(entries, i) ==
    IF i > Len(entries) THEN <<>>
    ELSE (IF entries[i].Healthy THEN <<entries[i]>> ELSE <<>>) \o FilterHealthy(entries, i + 1)

\* WeightedBalancer.Select: the IP lists it can return (nil is <<>>).
Select(entries) ==
    LET healthy == FilterHealthy(entries, 1)
    IN  IF Len(entries) = 0 THEN {<<>>}
        ELSE IF Len(healthy) = 0 THEN {<<>>}
        ELSE IF Len(healthy) = 1 THEN {<<healthy[1].IP>>}
        ELSE Shuffle(healthy)

\* No call of Select or wildcardMatch has been made.
LbIdle == [pc |-> "idle", entries |-> <<>>, remaining |-> <<>>, result |-> <<>>, first |-> -1]

LibIdle ==
    /\ lb = LbIdle
    /\ wm = [pattern |-> <<>>, name |-> <<>>, called |-> FALSE, result |-> FALSE]

\* The arguments of Select: up to MaxEntries entries of distinct IPs, any of
\* the weights, healthy or not.
LbAddrs == <<"10.0.0.1", "10.0.0.2", "fd00::1", "10.0.0.3", "10.0.0.4">>

LbWeights == {-1, 0, 1, 3}

LbInputs ==
    UNION {{[i \in 1..n |-> [IP |-> LbAddrs[i], Weight |-> w[i], Healthy |-> h[i]]] :
                w \in [1..n -> LbWeights], h \in [1..n -> BOOLEAN]} : n \in 0..MaxEntries}

\* Select up to its loop: nil for no entries or no healthy entry, the single
\* healthy entry directly, else the loop over a copy of the healthy entries.
SelectBegin ==
    /\ lb.pc = "call"
    /\ LET healthy == FilterHealthy(lb.entries, 1)
       IN  lb' = IF Len(lb.entries) = 0 \/ Len(healthy) = 0
                 THEN [lb EXCEPT !.pc = "done", !.result = <<>>]
                 ELSE IF Len(healthy) = 1
                 THEN [lb EXCEPT !.pc = "done", !.result = <<healthy[1].IP>>]
                 ELSE [lb EXCEPT !.pc = "loop", !.remaining = healthy, !.result = <<>>]
    /\ UNCHANGED <<syncVars, store, muVars, hcVars, handlerVars, wm>>

\* One iteration of Select's loop; Select returns when nothing remains.
SelectStep ==
    /\ lb.pc = "loop"
    /\ \E r \in Draws(lb.remaining) :
          LET selected == weightedSelect(lb.remaining, r)
              remaining == RemoveSwap(lb.remaining, selected)
          IN  lb' = [lb EXCEPT !.result = Append(@, lb.remaining[selected].IP),
                               !.remaining = remaining,
                               !.first = IF lb.result = <<>> THEN r ELSE @,
                               !.pc = IF Len(remaining) > 0 THEN "loop" ELSE "done"]
    /\ UNCHANGED <<syncVars, store, muVars, hcVars, handlerVars, wm>>

\* ------------------------------------------------------------------------
\* handler.go: EtcdHosts.ServeDNS
\* ------------------------------------------------------------------------

\* The TTL of answers when the ttl directive is absent.
defaultTTL == 3600

\* The zones the plugin is configured for.
Origins == {<<"z", ".">>, <<"10.0.0.2", ".", "arpa", ".">>}

\* dns.IsSubDomain: name lies in zone, label by label.
IsSubDomain(zone, name) ==
    \/ zone = <<".">>
    \/ /\ HasSuffix(name, zone)
       /\ Len(name) = Len(zone) \/ name[Len(name) - Len(zone)] = "."

\* plugin.Zones(zones).Matches(qname) # "": some zone holds the name.
ZoneMatches(zones, qname) == \E z \in zones : IsSubDomain(z, qname)

\* The reverse-lookup name of an address, and dnsutil.ExtractAddressFromReverse
\* ("" for a name that is no reverse name). The address is kept as one label.
ReverseName(ip) == <<ip, ".", "arpa", ".">>

ExtractAddressFromReverse(qname) ==
    IF Len(qname) = 4 /\ SubSeq(qname, 2, 4) = <<".", "arpa", ".">> THEN qname[1] ELSE ""

\* a, aaaa and ptr: one resource record per IP or name.
RRs(zone, rrtype, ttl, data) ==
    [i \in 1..Len(data) |-> [Name |-> zone, Rrtype |-> rrtype, Ttl |-> ttl, Data |-> data[i]]]

\* getTTL: the TTL of the first entry when set, else the default.
getTTL(entries, default) ==
    IF Len(entries) > 0 /\ entries[1].TTL > 0 THEN entries[1].TTL ELSE default

\* The health the handler reads for each entry of hostname.
LbEntries(hostname, entries) ==
    [i \in 1..Len(entries) |->
        [IP |-> entries[i].IP, Weight |-> entries[i].Weight,
         Healthy |-> IF eh.checker THEN CheckerIsHealthy(cache, hostname, entries[i].IP) ELSE TRUE]]

\* filterAndBalance without the return_all case: unhealthy entries stay
\* filtered out.
filterAndBalance_NoReturnAll(hostname, entries) ==
    LET lbEntries == LbEntries(hostname, entries)
        allUnhealthy == \A i \in 1..Len(lbEntries) : ~lbEntries[i].Healthy
    IN  IF Len(entries) = 0 THEN {<<>>}
        ELSE IF allUnhealthy /\ eh.checker /\ hcCfg.UnhealthyPolicy \in {"return_empty", "fallthrough"}
        THEN {<<>>}
        ELSE Select(lbEntries)

\* filterAndBalance with return_empty handled as return_all is.
filterAndBalance_EmptyReturnsAll(hostname, entries) ==
    LET lbEntries == LbEntries(hostname, entries)
        allUnhealthy == \A i \in 1..Len(lbEntries) : ~lbEntries[i].Healthy
    IN  IF Len(entries) = 0 THEN {<<>>}
        ELSE IF allUnhealthy /\ eh.checker /\ hcCfg.UnhealthyPolicy = "fallthrough"
        THEN {<<>>}
        ELSE IF allUnhealthy /\ eh.checker
        THEN Select([i \in 1..Len(lbEntries) |-> [lbEntries[i] EXCEPT !.Healthy = TRUE]])
        ELSE Select(lbEntries)

\* filterAndBalance: the IP lists it can return.
filterAndBalance(hostname, entries) ==
    LET lbEntries == LbEntries(hostname, entries)
        allUnhealthy == \A i \in 1..Len(lbEntries) : ~lbEntries[i].Healthy
    IN  IF Len(entries) = 0 THEN {<<>>}
        ELSE IF allUnhealthy /\ eh.checker /\ hcCfg.UnhealthyPolicy \in {"return_empty", "fallthrough"}
        THEN {<<>>}
        ELSE IF allUnhealthy /\ eh.checker /\ hcCfg.UnhealthyPolicy = "return_all"
        THEN Select([i \in 1..Len(lbEntries) |-> [lbEntries[i] EXCEPT !.Healthy = TRUE]])
        ELSE Select(lbEntries)

\* How a call of ServeDNS ends, and a call that has not returned yet.
NextPlugin(q) == [q |-> q, rcode |-> "NEXT", answers |-> <<>>, wrote |-> FALSE, next |-> TRUE]

ServFail(q) == [q |-> q, rcode |-> "SERVFAIL", answers |-> <<>>, wrote |-> FALSE, next |-> FALSE]

Reply(q, answers) == [q |-> q, rcode |-> "NOERROR", answers |-> answers, wrote |-> TRUE, next |-> FALSE]

Pending(q) == [q |-> q, rcode |-> "pending", answers |-> <<>>, wrote |-> FALSE, next |-> FALSE]

\* A question as ServeDNS receives it: nothing counted, nothing looked up.
Asked(name, qtype) ==
    [name |-> name, qtype |-> qtype, allUnhealthy |-> FALSE, metric |-> "none", reads |-> 0,
     republished |-> FALSE, hadRecords |-> FALSE]

NoQuestion == Asked(<<>>, "none")

\* The zone gate without the exemption of PTR questions.
OutsideOrigins_PtrToo(qname, qtype) == ~ZoneMatches(Origins, qname)

\* The zone gate left out.
OutsideOrigins_Never(qname, qtype) == FALSE

\* The zone gate: the name lies in no configured origin and the question is
\* not a PTR question.
OutsideOrigins(qname, qtype) == ~ZoneMatches(Origins, qname) /\ qtype # "PTR"

\* The questions asked: request.Name() is the lowercased name.
Questions ==
    {[name |-> n, qtype |-> "A"] : n \in {NameSvc, NameSvcUpper, NameSub, NameOut}}
    \cup {[name |-> n, qtype |-> "AAAA"] : n \in {NameSvc, NameSub}}
    \cup {[name |-> ReverseName(ip), qtype |-> "PTR"] : ip \in V4Addrs}
    \cup {[name |-> NameSvc, qtype |-> "MX"]}

\* ServeDNS up to the test for an empty answer: the zone check, the lookup
\* for the question's type, health filtering and balancing.
ServeDNS(question) ==
    LET qname == ToLower(question.name)
        qtype == question.qtype
        map == IF qtype = "A" THEN store.name4 ELSE store.name6
        plain == Asked(question.name, qtype)
        looked == [plain EXCEPT !.reads = 1]
    IN  /\ hpc = "idle"
        /\ CanRLock(mu)
        /\ IF OutsideOrigins(qname, qtype)
           THEN /\ served' = NextPlugin(plain)
                /\ UNCHANGED hpc
           ELSE IF qtype = "PTR"
           THEN LET names == MapGet(store.addr, ParseIP(ExtractAddressFromReverse(qname)))
                IN  /\ served' = IF Len(names) = 0 THEN NextPlugin([looked EXCEPT !.metric = "miss"])
                                 ELSE Reply([looked EXCEPT !.metric = "hit"],
                                            RRs(qname, "PTR", eh.TTL, names))
                    /\ UNCHANGED hpc
           ELSE IF qtype \in {"A", "AAAA"}
           THEN \E entries \in lookupWithWildcard(map, qname) :
                \E ips \in filterAndBalance(qname, entries) :
                    LET asked == [looked EXCEPT
                                    !.metric = IF Len(ips) > 0 THEN "hit" ELSE "miss",
                                    !.hadRecords =
                                        \E found \in lookupWithWildcard(store.name4, qname)
                                                      \cup lookupWithWildcard(store.name6, qname) :
                                            Len(found) > 0,
                                    !.allUnhealthy =
                                    /\ Len(entries) > 0
                                    /\ \A found \in lookupWithWildcard(store.name4, qname)
                                                   \cup lookupWithWildcard(store.name6, qname) :
                                         \A i \in 1..Len(found) :
                                            ~CheckerIsHealthy(cache, qname, found[i].IP)]
                    IN  IF Len(ips) > 0
                        THEN /\ served' = Reply(asked, RRs(qname, qtype, getTTL(entries, eh.TTL), ips))
                             /\ UNCHANGED hpc
                        ELSE /\ hpc' = "other4"
                             /\ served' = Pending(asked)
           ELSE /\ hpc' = "other4"
                /\ served' = Pending(plain)
        /\ UNCHANGED <<syncVars, store, muVars, hcVars, eh, libVars>>

\* otherRecordsExist: the first lookup, for IPv4 entries of the name.
ServeOther4 ==
    /\ hpc = "other4"
    /\ CanRLock(mu)
    /\ \E entries \in lookupWithWildcard(store.name4, ToLower(served.q.name)) :
          LET q == [served.q EXCEPT !.reads = @ + 1]
          IN  IF Len(entries) > 0
              THEN /\ served' = Reply(q, <<>>)
                   /\ hpc' = "idle"
              ELSE /\ served' = Pending(q)
                   /\ hpc' = "other6"
    /\ UNCHANGED <<syncVars, store, muVars, hcVars, eh, libVars>>

\* The end of ServeDNS for an empty answer without the test of
\* Fall.Through.
ServeOther6_NoFallthrough ==
    /\ hpc = "other6"
    /\ CanRLock(mu)
    /\ \E entries \in lookupWithWildcard(store.name6, ToLower(served.q.name)) :
          LET q == [served.q EXCEPT !.reads = @ + 1]
          IN  served' = IF Len(entries) > 0 THEN Reply(q, <<>>) ELSE ServFail(q)
    /\ hpc' = "idle"
    /\ UNCHANGED <<syncVars, store, muVars, hcVars, eh, libVars>>

\* otherRecordsExist: the second lookup, for IPv6 entries, and the end of
\* ServeDNS for an empty answer.
ServeOther6 ==
    /\ hpc = "other6"
    /\ CanRLock(mu)
    /\ \E entries \in lookupWithWildcard(store.name6, ToLower(served.q.name)) :
          LET q == [served.q EXCEPT !.reads = @ + 1]
          IN  served' = IF Len(entries) > 0 THEN Reply(q, <<>>)
                        ELSE IF ZoneMatches(eh.fall, ToLower(q.name)) THEN NextPlugin(q)
                        ELSE ServFail(q)
    /\ hpc' = "idle"
    /\ UNCHANGED <<syncVars, store, muVars, hcVars, eh, libVars>>

\* Store.Update(records) as the single step the lookups can observe.
StoreUpdate(records) ==
    /\ upc = "idle"
    /\ CanLock(mu)
    /\ store.records # records
    /\ store' = BuildStore(records)
    /\ served' = IF hpc = "idle" THEN served ELSE [served EXCEPT !.q.republished = TRUE]
    /\ UNCHANGED <<syncVars, muVars, hcVars, eh, hpc, libVars>>

\* Record lists the handler is served from.
ServedRecs ==
    {<<>>,
     <<Rec(NameSvc, "10.0.0.1", 0, 1, HealthTCP), Rec(NameSvc, "10.0.0.2", 30, 3, HealthTCP)>>,
     <<Rec(NameSvc, "10.0.0.1", 60, 1, HealthTCP), Rec(NameSvc, "fd00::1", 0, 1, NoHealth),
       Rec(NameWild, "10.0.0.1", 0, 1, HealthTCP)>>,
     <<Rec(NameSvc, "10.0.0.1", 0, 1, NoHealth), Rec(NameSvc, "10.0.0.2", 0, 1, NoHealth)>>}

\* The targets probed while queries are served.
ServedTargets == {t \in CheckTargets : t.Hostname = NameSvc}

\* No query has been served yet; without a healthcheck block there is no
\* checker.
HandlerIdle ==
    /\ eh = [checker |-> FALSE, fall |-> {}, TTL |-> defaultTTL]
    /\ hpc = "idle"
    /\ served = Pending(NoQuestion)

\* setup: the healthcheck block, when present, creates the checker and
\* chooses the policy; the fallthrough directive sets the zones.
HandlerInit ==
    /\ SyncIdle
    /\ store = NewStore
    /\ MuInit
    /\ \E policy \in {"return_all", "return_empty", "fallthrough"}, c \in BOOLEAN, f \in {{}, {<<".">>}} :
          /\ ~c => policy = "return_all"
          /\ NewChecker(0, 0, policy)
          /\ eh = [checker |-> c, fall |-> f, TTL |-> defaultTTL]
    /\ hpc = "idle"
    /\ served = Pending(NoQuestion)
    /\ LibIdle

HandlerNext ==
    \/ \E question \in Questions : ServeDNS(question)
    \/ ServeOther4
    \/ ServeOther6
    \/ \E records \in ServedRecs : StoreUpdate(records)
    \/ \E t \in ServedTargets : Unchecked(t, MaxServeProbes) /\ checkOne(t, TRUE)

\* The plugin serving queries while the store is republished and the
\* targets fail their checks (the handler reads the healthy flag only, so a
\* target that recovered is to it what a target that never failed is).
HandlerSpec == HandlerInit /\ [][HandlerNext]_vars

\* Patterns and names wildcardMatch is called with: a pattern two and one
\* labels deep, one in upper case, and names without wildcard; names one
\* and two labels below a pattern, the bare suffix, upper case, a label of
\* two characters, and a pattern itself.
NameDeepWild == <<"*", ".", "a", ".", "z", ".">>
NameDeepWildUpper == <<"*", ".", "a", ".", "Z", ".">>
NameLeaf == <<"s", ".", "a", ".", "z", ".">>

MatchPatterns == {NameWild, NameDeepWild, NameDeepWildUpper, NameSub, NameSvcUpper}

MatchNames ==
    {NameSvcUpper, NameSub, NameWild, NameLeaf, <<"z", ".">>,
     <<"s", ".", "d", ".", "a", ".", "z", ".">>, <<"S", ".", "a", ".", "Z", ".">>,
     <<"s", "d", ".", "a", ".", "z", ".">>}

\* A call of wildcardMatch.
MatchCall(pattern, name) ==
    /\ wm' = [pattern |-> pattern, name |-> name, called |-> TRUE, result |-> wildcardMatch(pattern, name)]
    /\ UNCHANGED <<syncVars, store, muVars, hcVars, handlerVars, lb>>

\* The record lists the wildcard lookups are served from: every choice
\* among an exact name, wildcard patterns of both depths and families, and
\* names below them.
WildRecords ==
    <<Rec(NameSvc, "10.0.0.1", 0, 1, NoHealth), Rec(NameWild, "10.0.0.2", 0, 1, NoHealth),
      Rec(NameDeepWildUpper, "10.0.0.1", 0, 1, NoHealth), Rec(NameWild, "fd00::1", 0, 1, NoHealth),
      Rec(NameLeaf, "10.0.0.2", 0, 1, NoHealth)>>

RECURSIVE Pick(_, _, _)
Pick(records, chosen, i) ==
    IF i > Len(records) THEN <<>>
    ELSE (IF i \in chosen THEN <<records[i]>> ELSE <<>>) \o Pick(records, chosen, i + 1)

WildLookups ==
    {[kind |-> k, name |-> n, addr |-> ""] :
        k \in {"LookupV4WithWildcard", "LookupV6WithWildcard"},
        n \in {NameSvcUpper, NameSub, NameLeaf, <<"d", ".", "a", ".", "z", ".">>,
               <<"s", ".", "d", ".", "a", ".", "z", ".">>}}

WildHealthNext ==
    \/ \E question \in Questions : ServeDNS(question)
    \/ ServeOther4
    \/ ServeOther6
    \/ \E records \in ServedRecs : StoreUpdate(records)
    \/ /\ Unchecked(WildTarget, MaxServeProbes)
       /\ \E i \in 1..Len(store.records) : store.records[i].Hostname = NameWild
       /\ checkOne(WildTarget, TRUE)

\* The plugin serving queries while the target of the record with a
\* wildcard pattern, as long as the store holds the record, fails its checks.
WildHealthSpec == HandlerInit /\ [][WildHealthNext]_vars

WildcardInit ==
    /\ SyncIdle
    /\ store \in {BuildStore(Pick(WildRecords, chosen, 1)) : chosen \in SUBSET (1..Len(WildRecords))}
    /\ MuInit
    /\ NewChecker(0, 0, "return_all")
    /\ HandlerIdle
    /\ LibIdle

WildcardNext ==
    \/ \E q \in WildLookups : LookupCall(1, q)
    \/ LookupReturn(1)
    \/ \E pattern \in MatchPatterns, name \in MatchNames : MatchCall(pattern, name)

\* One caller of the wildcard lookups and of wildcardMatch.
WildcardSpec == WildcardInit /\ [][WildcardNext]_vars

\* The records Store.Update is given while its indexes are read: a name in
\* two spellings and repeated for one address, the same name for an IPv6
\* address, and the name without its final dot.
IndexedRecords ==
    <<Rec(NameSvc, "10.0.0.1", 0, 1, NoHealth), Rec(NameSvcUpper, "10.0.0.1", 0, 1, NoHealth),
      Rec(NameSvc, "10.0.0.1", 0, 1, NoHealth), Rec(NameSvc, "fd00::1", 0, 1, NoHealth),
      Rec(NameSvcBare, "10.0.0.1", 0, 1, NoHealth)>>

IndexArgs == {Pick(IndexedRecords, chosen, 1) : chosen \in SUBSET (1..Len(IndexedRecords))}

IndexLookups ==
    {[kind |-> k, name |-> n, addr |-> ""] :
        k \in {"LookupV4", "LookupV6", "LookupV4WithWildcard", "LookupV6WithWildcard"},
        n \in {NameSvcUpper, NameSvcBare}}
    \cup {[kind |-> "LookupAddr", name |-> <<>>, addr |-> a] : a \in {"10.0.0.1", "FD00::1", "10.0.0.2", "bogus"}}

IndexNext ==
    \/ \E records \in IndexArgs : StoreUpdate(records)
    \/ \E q \in IndexLookups : LookupCall(1, q)
    \/ LookupReturn(1)

BalancerInit ==
    /\ SyncIdle
    /\ store = NewStore
    /\ MuInit
    /\ NewChecker(0, 0, "return_all")
    /\ HandlerIdle
    /\ lb \in {[LbIdle EXCEPT !.pc = "call", !.entries = e] : e \in LbInputs}
    /\ wm = [pattern |-> <<>>, name |-> <<>>, called |-> FALSE, result |-> FALSE]

BalancerNext == SelectBegin \/ SelectStep

\* One call of Select, which runs until it returns.
BalancerSpec == BalancerInit /\ [][BalancerNext]_vars /\ WF_vars(BalancerNext)

CheckerInit ==
    /\ SyncIdle
    /\ store = NewStore
    /\ MuInit
    /\ hcCfg = Config(0, 0, "return_all", 0)
    /\ cache = <<>>
    /\ probed = [k \in CheckKeys |-> <<>>]
    /\ calls = [k \in CheckKeys |-> <<>>]
    /\ ck = [CkNew EXCEPT !.given = CkRecords, !.targets = CkTargets]
    /\ HandlerIdle
    /\ LibIdle

CheckerNext ==
    \/ \E i \in Starters : Start(i)
    \/ \E i \in Starters : Spawn(i)
    \/ \E i \in Starters : Wait(i)
    \/ \E i \in Starters, k \in 1..Len(CkTargets) : Acquire(i, k)
    \/ \E i \in Starters, k \in 1..Len(CkTargets) : Probe(i, k, TRUE)
    \/ \E i \in Starters, k \in 1..Len(CkTargets) : Quit(i, k)
    \/ \E i \in Starters : Tick(i)
    \/ \E i \in Starters : LoopStopped(i)
    \/ \E i \in Starters : LoopCancelled(i)
    \/ Stop
    \/ Cancel

\* Every goroutine goes on when it can, and a select whose stop channel is
\* closed or whose context is done takes that case in the end.
CheckerFair ==
    /\ \A i \in Starters :
          /\ WF_vars(Spawn(i))
          /\ WF_vars(Wait(i))
          /\ SF_vars(LoopStopped(i))
          /\ SF_vars(LoopCancelled(i))
    /\ \A i \in Starters, k \in 1..Len(CkTargets) :
          /\ SF_vars(Acquire(i, k))
          /\ WF_vars(Probe(i, k, TRUE))

\* The checker with two goroutines calling Start, Stop called and the
\* context cancelled at any moment, and probes that fail.
CheckerSpec == CheckerInit /\ [][CheckerNext]_vars /\ CheckerFair

\* A new checker with one or two probes at a time and a threshold of two
\* failures.
SweepInit ==
    /\ SyncIdle
    /\ store = NewStore
    /\ MuInit
    /\ \E n \in 1..MaxSem : hcCfg = Config(2, 0, "return_all", n)
    /\ cache = <<>>
    /\ probed = [k \in CheckKeys |-> <<>>]
    /\ calls = [k \in CheckKeys |-> <<>>]
    /\ ck = CkNew
    /\ HandlerIdle
    /\ LibIdle

SweepNext ==
    \/ \E records \in TargetRecs : UpdateTargets(records)
    \/ Start(1)
    \/ Spawn(1)
    \/ Wait(1)
    \/ \E k \in 1..MaxTargets : Acquire(1, k)
    \/ \E k \in 1..MaxTargets : Probe(1, k, TRUE)
    \/ \E k \in 1..MaxTargets : Quit(1, k)
    \/ Tick(1)
    \/ LoopStopped(1)
    \/ LoopCancelled(1)
    \/ Stop
    \/ Cancel

\* One goroutine calling Start on a checker whose targets are replaced at
\* any moment, with probes that fail.
SweepSpec == SweepInit /\ [][SweepNext]_vars

CacheInit ==
    /\ SyncIdle
    /\ store = NewStore
    /\ MuInit
    /\ \E f, s \in 1..MaxThreshold : NewChecker(f, s, "return_all")
    /\ HandlerIdle
    /\ LibIdle

CacheNext ==
    \E t \in CheckTargets, err \in BOOLEAN : Unchecked(t, MaxProbes) /\ checkOne(t, err)

\* A Checker whose checkOne is called, in any order, for its targets.
CacheSpec == CacheInit /\ [][CacheNext]_vars

StoreInit ==
    /\ SyncIdle
    /\ store = NewStore
    /\ MuInit
    /\ NewChecker(0, 0, "return_all")
    /\ HandlerIdle
    /\ LibIdle

StoreNext ==
    \/ \E records \in UpdateArgs : UpdateCall(records)
    \/ UpdateLock
    \/ UpdateAssign
    \/ UpdateUnlock
    \/ \E r \in Readers, q \in LookupCalls : LookupCall(r, q)
    \/ \E r \in Readers : LookupReturn(r)

\* One goroutine calling Store.Update and the lookup goroutines.
StoreSpec == StoreInit /\ [][StoreNext]_vars

\* Store.Update replacing the records while one goroutine looks names and
\* addresses up.
IndexSpec == StoreInit /\ [][IndexNext]_vars

Init ==
    /\ SyncInit
    /\ store = NewStore
    /\ MuInit
    /\ NewChecker(0, 0, "return_all")
    /\ HandlerIdle
    /\ LibIdle

Next ==
    \/ \E d \in DataSet : KvPut(d)
    \/ KvDelete
    \/ KvReachability
    \/ WatchDrop
    \/ WatchPump
    \/ OnStartup
    \/ CheckCtx
    \/ Subscribe
    \/ Recv
    \/ RecvClosed
    \/ Backoff

\* The synchronizer with its keystore.
Spec == Init /\ [][Next]_vars

\* The synchronizer until OnShutdown cancels the context: the key is
\* written, the watch fails, and once the plugin has started the context
\* is cancelled at any moment.
ShutdownNext ==
    \/ KvPut(DataA)
    \/ WatchDrop
    \/ WatchPump
    \/ WatchCancelled
    \/ OnStartup
    \/ CheckCtx
    \/ Subscribe
    \/ Recv
    \/ RecvClosed
    \/ Backoff
    \/ BackoffCancelled
    \/ pc # "init" /\ Cancel

\* Every goroutine goes on when it can; the timer of the back-off fires.
ShutdownFair ==
    /\ WF_vars(WatchPump) /\ WF_vars(WatchCancelled)
    /\ WF_vars(OnStartup) /\ WF_vars(CheckCtx) /\ WF_vars(Subscribe)
    /\ WF_vars(Recv) /\ WF_vars(RecvClosed) /\ WF_vars(Backoff)

ShutdownSpec == Init /\ [][ShutdownNext]_vars /\ ShutdownFair

\* ------------------------------------------------------------------------
\* Claims about the synchronizer
\* ------------------------------------------------------------------------

\* The store the keystore's current contents parse to.
StoreOfKv == IF kv = NilBytes THEN BuildStore(<<>>) ELSE BuildStore(ParseRecords(kv).records)

\* The log lines of the failure paths of loadFromEtcd and watchEtcd.
FailLogs == {"load_failed", "watch_error", "reload_failed", "parse_failed"}

\* C1: the revisions of the keystore states given to successive
\* Store.Update calls never decrease.
C1_PublishedRevisionsNonDecreasing == [][storeRev' >= storeRev]_vars

\* The synchronizer is subscribed again after a stream ended, the keystore
\* is reachable and nothing is in flight: no step of the program is enabled
\* until the keystore changes again.
QuietAfterDrop ==
    /\ dropped
    /\ syncOk
    /\ pc = "recv"
    /\ watchActive
    /\ reachable
    /\ srvQ = <<>>
    /\ ch = <<>>

\* C3: once re-subscribed after a drop, with a reachable keystore that has
\* stopped changing and nothing left to process, the store equals the parse
\* of the keystore's current contents.
C3_CaughtUpAfterDrop ==
    (QuietAfterDrop /\ (kv = NilBytes \/ ~ParseRecords(kv).err)) => store = StoreOfKv

\* C4: after a startup whose initial load failed, and as long as no sync
\* has succeeded, the callback has returned nil, the watcher runs, the
\* checker runs exactly when health checking is configured, and the store
\* is empty.
C4_StartupSurvivesLoadFailure ==
    (pc # "init" /\ ~syncOk) =>
        /\ startupErr = "nil"
        /\ watcherLaunched
        /\ checkerLaunched = enableHealth
        /\ store = NewStore

\* The initial load failed on an unreachable keystore, startup is over and
\* the watcher is already waiting for events.
C4_Witness ==
    /\ pc = "recv"
    /\ ~syncOk
    /\ lastLog = "load_failed"
    /\ enableHealth
    /\ kv # NilBytes

\* C5: a step of the synchronizer that ends in a failure log line leaves
\* the store as it was.
C5_FailureKeepsStore == [][lastLog' \in FailLogs => store' = store]_vars

\* A parse failure was logged while the store holds records.
C5_Witness == lastLog = "parse_failed" /\ store.records # <<>>

\* ------------------------------------------------------------------------
\* Claims about the store
\* ------------------------------------------------------------------------

\* C2: the four fields change together as far as any lookup can see, and a
\* lookup returns what one snapshot alone gives. While no writer holds the
\* lock the store is the snapshot of the previous record list or of the one
\* being installed; a lookup holding the read lock excludes the writer; the
\* value a lookup returned is a result of the snapshot it locked; and once
\* Update has returned the store is the snapshot of its argument.
C2_UpdateIsAtomic ==
    /\ ~mu.writer => store \in {BuildStore(updPrev), BuildStore(updArg)}
    /\ upc = "idle" => store = BuildStore(updArg)
    /\ \A r \in Readers :
        /\ rpc[r] = "locked" => (~mu.writer /\ store.records = rview[r])
        /\ rpc[r] = "done" =>
            /\ rres[r] \in StoreLookup(BuildStore(rview[r]), rq[r])
            /\ rview[r] \in UpdateArgs

\* A wildcard lookup that started while Update was waiting for the lock has
\* returned the entries of the previous snapshot, and Update has since
\* installed other records.
C2_Witness ==
    \E r \in Readers :
        /\ rpc[r] = "done"
        /\ rq[r].kind = "LookupV4WithWildcard"
        /\ rq[r].name = NameSub
        /\ rres[r] # <<>>
        /\ rview[r] = updPrev
        /\ upc = "idle"
        /\ updArg # updPrev

\* ------------------------------------------------------------------------
\* Claims about the health cache
\* ------------------------------------------------------------------------

\* Length of the run of the value v that ends the sequence h.
RECURSIVE TrailingRun(_, _)
TrailingRun(h, v) ==
    IF h = <<>> \/ h[Len(h)] # v THEN 0
    ELSE 1 + TrailingRun(SubSeq(h, 1, Len(h) - 1), v)

\* The entry a first Update starts from.
FreshEntry == [Healthy |-> TRUE, Failures |-> 0, Successes |-> 0]

\* The hysteresis rule for the Update of key k made in this step.
HysteresisStep(k) ==
    LET old == IF k \in DOMAIN cache THEN cache[k] ELSE FreshEntry
        new == cache'[k]
        healthy == calls'[k][Len(calls'[k])]
    IN  IF healthy
        THEN /\ new.Failures = 0
             /\ new.Successes = old.Successes + 1
             /\ new.Healthy = (IF new.Successes >= hcCfg.SuccessBeforeUp THEN TRUE ELSE old.Healthy)
        ELSE /\ new.Successes = 0
             /\ new.Failures = old.Failures + 1
             /\ new.Healthy = (IF new.Failures >= hcCfg.FailuresBeforeDown THEN FALSE ELSE old.Healthy)

\* C6: every Update follows the hysteresis rule, and afterwards at most
\* one counter of the entry is non-zero and equals the length of the
\* trailing run of identical results.
C6_Hysteresis ==
    [][\A k \in CheckKeys : calls'[k] # calls[k] =>
          /\ HysteresisStep(k)
          /\ cache'[k].Failures = 0 \/ cache'[k].Successes = 0
          /\ cache'[k].Failures = TrailingRun(calls'[k], FALSE)
          /\ cache'[k].Successes = TrailingRun(calls'[k], TRUE)]_vars

\* A key went down after two failures and one later success has not yet
\* brought it up.
C6_Witness ==
    \E k \in DOMAIN cache :
        /\ hcCfg.FailuresBeforeDown = 2
        /\ hcCfg.SuccessBeforeUp = 2
        /\ calls[k] = <<TRUE, FALSE, FALSE, TRUE>>
        /\ cache[k] = [Healthy |-> FALSE, Failures |-> 0, Successes |-> 1]

\* The healthy flag the probe results h (TRUE: error) call for: down after
\* failuresBeforeDown trailing failures, up after successBeforeUp trailing
\* successes, else what it was before the trailing run began (healthy at
\* the very beginning).
RECURSIVE ExpectedHealthy(_)
ExpectedHealthy(h) ==
    IF h = <<>> THEN TRUE
    ELSE LET failed == h[Len(h)]
             n == TrailingRun(h, failed)
         IN  IF failed /\ n >= hcCfg.FailuresBeforeDown THEN FALSE
             ELSE IF ~failed /\ n >= hcCfg.SuccessBeforeUp THEN TRUE
             ELSE ExpectedHealthy(SubSeq(h, 1, Len(h) - n))

\* C7: for every probed target the healthy flag is the one its probe
\* results call for.
C7_FlagMatchesOutcomes ==
    \A k \in CheckKeys : probed[k] # <<>> => cache[k].Healthy = ExpectedHealthy(probed[k])

\* Down after two failures, and a single success that does not reach
\* successBeforeUp = 2 has left the target down.
C7_Witness ==
    \E k \in CheckKeys :
        /\ hcCfg.FailuresBeforeDown = 2
        /\ hcCfg.SuccessBeforeUp = 2
        /\ probed[k] = <<TRUE, TRUE, FALSE>>
        /\ ~cache[k].Healthy

\* C8: a key that was never updated is reported healthy and not found by
\* Get, IsHealthy and Checker.IsHealthy; the first Update of a key starts
\* from a healthy entry with both counters zero, so one failure leaves it
\* healthy when failuresBeforeDown > 1.
C8_UnknownIsHealthy ==
    \A t \in CheckTargets :
        LET k == CacheKey(t.Hostname, t.IP)
        IN  /\ k \notin DOMAIN cache =>
                /\ CacheGet(cache, k) = <<TRUE, FALSE>>
                /\ CacheIsHealthy(cache, k)
                /\ CheckerIsHealthy(cache, t.Hostname, t.IP)
            /\ calls[k] = <<TRUE>> => cache[k] = [Healthy |-> TRUE, Failures |-> 0, Successes |-> 1]
            /\ calls[k] = <<FALSE>> =>
                cache[k] = [Healthy |-> hcCfg.FailuresBeforeDown > 1, Failures |-> 1, Successes |-> 0]

\* One key has had a single failed check and is still healthy while
\* another key was never checked.
C8_Witness ==
    \E k1, k2 \in CheckKeys :
        /\ k1 \in DOMAIN cache
        /\ calls[k1] = <<FALSE>>
        /\ cache[k1].Healthy
        /\ hcCfg.FailuresBeforeDown > 1
        /\ k2 \notin DOMAIN cache

\* ------------------------------------------------------------------------
\* Claims about the handler
\* ------------------------------------------------------------------------

\* An A or AAAA query has been answered for which the name had entries of
\* the type asked and every entry of the name, of either family, was
\* unhealthy when the handler looked, under the given policy.
AllUnhealthyServed(policy) ==
    /\ hpc = "idle"
    /\ served.q.qtype \in {"A", "AAAA"}
    /\ served.q.allUnhealthy
    /\ eh.checker
    /\ hcCfg.UnhealthyPolicy = policy

C10_FallthroughPolicyCallsNext ==
    AllUnhealthyServed("fallthrough") => (served.next /\ ~served.wrote)

\* A call of ServeDNS returns in this step.
Returns == hpc' = "idle" /\ served' # served

\* The entries the store holds for the question's name and type, as the
\* lookup of a returning call finds them.
EntriesFor(q) ==
    lookupWithWildcard(IF q.qtype = "A" THEN store.name4 ELSE store.name6, ToLower(q.name))

\* The sequences a and b hold the same values the same number of times.
SameBag(a, b) ==
    /\ Len(a) = Len(b)
    /\ \A x \in {a[i] : i \in 1..Len(a)} \cup {b[i] : i \in 1..Len(b)} :
          Cardinality({i \in 1..Len(a) : a[i] = x}) = Cardinality({i \in 1..Len(b) : b[i] = x})

AnswerData(answers) == [i \in 1..Len(answers) |-> answers[i].Data]

\* C11: under policy return_all a query for a name whose entries are all
\* unhealthy is answered with the IP of every entry of the name, each once,
\* and the query leaves the health cache as it was.
C11_ReturnAllAnswersEveryEntry ==
    [][(Returns /\ served'.q.qtype \in {"A", "AAAA"} /\ served'.q.allUnhealthy
            /\ eh.checker /\ hcCfg.UnhealthyPolicy = "return_all") =>
        /\ cache' = cache
        /\ served'.rcode = "NOERROR"
        /\ \E entries \in EntriesFor(served'.q) :
              Len(entries) > 0 /\ SameBag(AnswerData(served'.answers), IPsOf(entries))]_vars

C11_Witness ==
    /\ AllUnhealthyServed("return_all")
    /\ Len(served.answers) = 2
    /\ \A k \in DOMAIN cache : ~cache[k].Healthy

EmptyAnswerServed(s) ==
    /\ s.q.qtype \in {"A", "AAAA"}
    /\ ZoneMatches(Origins, ToLower(s.q.name))
    /\ s.rcode # "pending"
    /\ s.answers = <<>>

\* The store holds a record of either family whose hostname is the name or a
\* wildcard pattern the name matches.
NameHasEntries(name) ==
    \E i \in 1..Len(store.records) :
        LET h == ToLower(store.records[i].Hostname)
        IN  h = name \/ (isWildcard(h) /\ wildcardMatch(h, name))

C13_AnswerCarriesEntryTTL ==
    [][(Returns /\ served'.q.qtype \in {"A", "AAAA"} /\ Len(served'.answers) > 0) =>
        \E entries \in EntriesFor(served'.q) :
            \A i \in 1..Len(served'.answers) :
                \E j \in 1..Len(entries) :
                    /\ entries[j].IP = served'.answers[i].Data
                    /\ served'.answers[i].Ttl = IF entries[j].TTL > 0 THEN entries[j].TTL ELSE eh.TTL]_vars

\* C14: a question that is not a PTR question and whose name lies in no
\* configured origin goes to the next plugin; the call reads nothing from
\* the store and counts neither a hit nor a miss.
C14_OutsideOriginsPassedOn ==
    (served.q.qtype \notin {"none", "PTR"} /\ ~ZoneMatches(Origins, ToLower(served.q.name))) =>
        /\ hpc = "idle"
        /\ served.next /\ ~served.wrote
        /\ served.q.reads = 0
        /\ served.q.metric = "none"

C14_Witness ==
    /\ served.q.name = NameOut /\ served.q.qtype = "A"
    /\ served.next
    /\ store.records # <<>>

\* The names of the records of the address text, each once.
NamesOfAddr(addr) ==
    {ToLower(store.records[i].Hostname) :
        i \in {j \in 1..Len(store.records) : store.records[j].IP = ParseIP(addr)}}

\* C15: a PTR question is handled inside and outside the origins: when the
\* store has names for the address the answer holds one PTR record per name
\* and the call succeeds; when it has none the question goes to the next
\* plugin, whatever fallthrough says.
C15_PtrAnsweredOrPassedOn ==
    [][(Returns /\ served'.q.qtype = "PTR") =>
        LET names == NamesOfAddr(ExtractAddressFromReverse(ToLower(served'.q.name)))
        IN  IF names # {}
            THEN /\ served'.rcode = "NOERROR" /\ served'.wrote /\ ~served'.next
                 /\ Len(served'.answers) = Cardinality(names)
                 /\ {served'.answers[i].Data : i \in 1..Len(served'.answers)} = names
                 /\ \A i \in 1..Len(served'.answers) : served'.answers[i].Rrtype = "PTR"
            ELSE served'.next /\ ~served'.wrote /\ served'.answers = <<>>]_vars

C15_Witness ==
    /\ hpc = "idle"
    /\ served.q.qtype = "PTR"
    /\ ~ZoneMatches(Origins, ToLower(served.q.name))
    /\ served.rcode = "NOERROR"
    /\ Len(served.answers) = 2

\* ------------------------------------------------------------------------
\* Claims about the balancer
\* ------------------------------------------------------------------------

\* The IPs of the healthy entries passed to Select, and the weight passed
\* with an IP.
HealthyIPs == {lb.entries[i].IP : i \in {j \in 1..Len(lb.entries) : lb.entries[j].Healthy}}

WeightOf(ip) == lb.entries[CHOOSE i \in 1..Len(lb.entries) : lb.entries[i].IP = ip].Weight

\* The sequence holds each member of the set once and nothing else.
EachOnce(seq, S) == Len(seq) = Cardinality(S) /\ {seq[i] : i \in 1..Len(seq)} = S

\* What Select has returned, or drawn so far and still holds, is the healthy
\* entries, each once.
SelectResultOk ==
    /\ lb.pc = "done" => EachOnce(lb.result, HealthyIPs)
    /\ lb.pc = "loop" => EachOnce(lb.result \o IPsOf(lb.remaining), HealthyIPs)

\* C16: Select returns the IP of each healthy entry once and of no unhealthy
\* entry, for any weights (nil for no entries or none healthy, the single
\* healthy entry directly), and its loop terminates.
C16_SelectReturnsHealthyOnce == []SelectResultOk /\ <>(lb.pc = "done")

C16_Witness ==
    /\ lb.pc = "done"
    /\ Len(lb.result) = 2
    /\ \E i \in 1..Len(lb.entries) : ~lb.entries[i].Healthy
    /\ \E i \in 1..Len(lb.entries) : lb.entries[i].Healthy /\ lb.entries[i].Weight < 0

\* The number of values of rand.IntN for which weightedSelect picks entry i.
DrawsFor(entries, i) == Cardinality({r \in Draws(entries) : weightedSelect(entries, r) = i})

\* C17: while an entry of positive weight remains no entry of weight <= 0 is
\* drawn, so in the output every entry of positive weight precedes every
\* entry of weight <= 0; once only weights <= 0 remain, each remaining entry
\* is drawn by one of the equally likely values.
C17_NonPositiveDrawnLast ==
    /\ \A i, j \in 1..Len(lb.result) :
          (i < j /\ WeightOf(lb.result[i]) <= 0) => WeightOf(lb.result[j]) <= 0
    /\ (lb.pc = "loop" /\ \E i \in 1..Len(lb.remaining) : lb.remaining[i].Weight > 0) =>
          \A r \in Draws(lb.remaining) : lb.remaining[weightedSelect(lb.remaining, r)].Weight > 0
    /\ (lb.pc = "loop" /\ \A i \in 1..Len(lb.remaining) : lb.remaining[i].Weight <= 0) =>
          \A i \in 1..Len(lb.remaining) : DrawsFor(lb.remaining, i) = 1

C17_Witness ==
    /\ lb.pc = "done"
    /\ Len(lb.result) = 3
    /\ WeightOf(lb.result[1]) > 0
    /\ WeightOf(lb.result[2]) < 0
    /\ WeightOf(lb.result[3]) = 0

\* The sum of the weights of the first n entries.
RECURSIVE PrefixSum(_, _)
PrefixSum(entries, n) == IF n = 0 THEN 0 ELSE PrefixSum(entries, n - 1) + entries[n].Weight

\* C18: for healthy entries of positive weights the first value r drawn is
\* one of totalWeight values and puts entry i first exactly when r lies in
\* the i-th of the consecutive ranges of lengths w_1, w_2, ...: w_i of the
\* totalWeight values select entry i.
C18_FirstPositionProportional ==
    LET healthy == FilterHealthy(lb.entries, 1)
    IN  (Len(lb.result) >= 1 /\ Len(healthy) >= 2 /\ \A i \in 1..Len(healthy) : healthy[i].Weight > 0) =>
            /\ lb.first \in 0..(PrefixSum(healthy, Len(healthy)) - 1)
            /\ \A i \in 1..Len(healthy) :
                  /\ lb.result[1] = healthy[i].IP <=>
                        (PrefixSum(healthy, i - 1) <= lb.first /\ lb.first < PrefixSum(healthy, i))
                  /\ DrawsFor(healthy, i) = healthy[i].Weight
            /\ Cardinality(Draws(healthy)) = PrefixSum(healthy, Len(healthy))

C18_Witness ==
    /\ lb.pc = "done"
    /\ Len(lb.entries) = 2
    /\ lb.entries[1].Healthy /\ lb.entries[1].Weight = 3
    /\ lb.entries[2].Healthy /\ lb.entries[2].Weight = 1
    /\ lb.result[1] = lb.entries[2].IP
    /\ lb.first = 3

\* ------------------------------------------------------------------------
\* Claims about wildcard matching
\* ------------------------------------------------------------------------

\* The name is one label (one or more characters other than the dot)
\* followed by the pattern without its leading "*".
OneLabelBelow(pattern, name) ==
    \E k \in 1..Len(name) :
        /\ \A i \in 1..k : name[i] # "."
        /\ SubSeq(name, k + 1, Len(name)) = SubSeq(pattern, 2, Len(pattern))

\* C19: for a pattern *.S wildcardMatch is true exactly for the names that
\* are one label followed by .S (not for deeper names, not for S itself);
\* another pattern matches only the identical name; case is ignored.
C19_WildcardMatchesOneLabel ==
    wm.called =>
        (wm.result <=>
            IF ToLower(wm.pattern)[1] = "*" /\ ToLower(wm.pattern)[2] = "."
            THEN OneLabelBelow(ToLower(wm.pattern), ToLower(wm.name))
            ELSE ToLower(wm.pattern) = ToLower(wm.name))

C19_Witness ==
    /\ wm.called /\ wm.result
    /\ wm.pattern = NameDeepWildUpper
    /\ wm.name = <<"S", ".", "a", ".", "Z", ".">>

\* The order of characters, and the lexicographic order of names.
CharRank(c) ==
    CASE c = "*" -> 1 [] c = "." -> 2 [] c = "a" -> 3 [] c = "d" -> 4 [] c = "o" -> 5
      [] c = "s" -> 6 [] c = "z" -> 7 [] OTHER -> 0

RECURSIVE LexLeq(_, _, _)
LexLeq(a, b, i) ==
    IF i > Len(a) THEN TRUE
    ELSE IF i > Len(b) THEN FALSE
    ELSE IF a[i] = b[i] THEN LexLeq(a, b, i + 1)
    ELSE CharRank(a[i]) < CharRank(b[i])

\* The entries the claim names for a lookup in the map m: those of the exact
\* name, else those of the longest matching wildcard pattern, the first in
\* lexicographic order among equally long ones.
ChosenEntries(m, name) ==
    LET n == ToLower(name)
        matching == {p \in DOMAIN m : p[1] = "*" /\ p[2] = "." /\ OneLabelBelow(p, n)}
        longest == {p \in matching : \A q \in matching : Len(q) <= Len(p)}
    IN  IF n \in DOMAIN m THEN m[n]
        ELSE IF matching = {} THEN <<>>
        ELSE m[CHOOSE p \in longest : \A q \in longest : LexLeq(p, q, 1)]

WildKinds == {"LookupV4WithWildcard", "LookupV6WithWildcard"}

\* C20: a wildcard lookup returns the entries of the exact name when the
\* family index has it, else those of the longest matching pattern (the
\* lexicographically first of equally long ones); every order in which the
\* map is iterated gives the same result.
C20_WildcardLookupDeterministic ==
    /\ (rpc[1] = "done" /\ rq[1].kind \in WildKinds) =>
          rres[1] = ChosenEntries(IF rq[1].kind = "LookupV4WithWildcard" THEN store.name4 ELSE store.name6,
                                  rq[1].name)
    /\ (rpc[1] # "idle" /\ rq[1].kind \in WildKinds) => Cardinality(StoreLookup(store, rq[1])) = 1

C20_Witness ==
    /\ rpc[1] = "done"
    /\ rq[1].kind = "LookupV4WithWildcard"
    /\ rq[1].name = NameLeaf
    /\ NameLeaf \notin DOMAIN store.name4
    /\ {NameWild, NameDeepWild} \subseteq DOMAIN store.name4
    /\ rres[1] = store.name4[NameDeepWild]

\* ------------------------------------------------------------------------
\* Claims about the indexes of the store
\* ------------------------------------------------------------------------

\* Lookup goroutine 1 has returned from a call of one of the kinds.
Looked(kinds) == rpc[1] = "done" /\ rq[1].kind \in kinds

\* The lowercased hostnames of the records of R with the address ip.
HostsOf(R, ip) == {ToLower(R[i].Hostname) : i \in {j \in 1..Len(R) : R[j].IP = ip}}

\* C21: LookupAddr returns each lowercased hostname recorded for the
\* address in the list last given to Update exactly once, and nothing for
\* an address without record or a text that is no address.
C21_ReverseIndexHasEachNameOnce ==
    Looked({"LookupAddr"}) =>
        /\ EachOnce(rres[1], HostsOf(rview[1], ParseIP(rq[1].addr)))
        /\ ParseIP(rq[1].addr) = "" => rres[1] = <<>>

C21_Witness ==
    /\ Looked({"LookupAddr"})
    /\ rq[1].addr = "10.0.0.1"
    /\ rview[1] = IndexedRecords
    /\ Len(rres[1]) = 2

\* The addresses of the values a lookup returned: LookupV4 and LookupV6
\* return addresses, the wildcard lookups entries.
ReturnedIPs ==
    IF rq[1].kind \in {"LookupV4", "LookupV6"} THEN {rres[1][i] : i \in 1..Len(rres[1])}
    ELSE {rres[1][i].IP : i \in 1..Len(rres[1])}

\* The record r is among the entries of its name in the map m.
Indexed(m, r) ==
    /\ ToLower(r.Hostname) \in DOMAIN m
    /\ \E i \in 1..Len(m[ToLower(r.Hostname)]) : m[ToLower(r.Hostname)][i] = EntryOf(r)

\* C22: every record given to Update is in the IPv4 map when its address
\* is IPv4 and in the IPv6 map otherwise, never in both; the IPv4 lookups
\* return IPv4 addresses only and the IPv6 lookups IPv6 addresses only.
C22_OneFamilyPerRecord ==
    /\ \A i \in 1..Len(store.records) :
          LET r == store.records[i]
          IN  /\ Indexed(store.name4, r) <=> r.IP \in V4Addrs
              /\ Indexed(store.name6, r) <=> r.IP \in V6Addrs
    /\ Looked({"LookupV4", "LookupV4WithWildcard"}) => ReturnedIPs \subseteq V4Addrs
    /\ Looked({"LookupV6", "LookupV6WithWildcard"}) => ReturnedIPs \subseteq V6Addrs

\* The name has only an IPv6 record; the A lookup returned nothing.
C22_Witness ==
    /\ Looked({"LookupV4", "LookupV4WithWildcard"})
    /\ rq[1].name = NameSvcUpper
    /\ rview[1] = <<Rec(NameSvc, "fd00::1", 0, 1, NoHealth)>>
    /\ store.records = rview[1]
    /\ rres[1] = <<>>

NameKinds == {"LookupV4", "LookupV6", "LookupV4WithWildcard", "LookupV6WithWildcard"}

IsV4Kind(kind) == kind \in {"LookupV4", "LookupV4WithWildcard"}

\* Lowercased and dot-terminated.
DotTerminated(name) ==
    IF Len(name) > 0 /\ name[Len(name)] = "." THEN ToLower(name) ELSE Append(ToLower(name), ".")

\* The records of R of the family of the lookup whose hostname the
\* normalization norm makes equal to the name looked up.
SameNameRecords(R, q, norm(_)) ==
    {i \in 1..Len(R) : /\ norm(R[i].Hostname) = norm(q.name)
                       /\ (R[i].IP \in V4Addrs) = IsV4Kind(q.kind)}

\* C23 as stated: a record whose hostname differs from the name looked up
\* in letter case or in the final dot only is found.
C23_FoundUpToCaseAndDot ==
    (Looked(NameKinds) /\ SameNameRecords(rview[1], rq[1], DotTerminated) # {}) => rres[1] # <<>>

\* C23, amended: a record whose hostname differs from the name looked up
\* in letter case only is found, the lookup returning one value for each
\* such record of its family; the final dot is compared as it is.
C23_FoundUpToCase ==
    Looked(NameKinds) => Len(rres[1]) = Cardinality(SameNameRecords(rview[1], rq[1], ToLower))

C23_Witness ==
    /\ Looked(NameKinds)
    /\ rq[1].name = NameSvcUpper
    /\ rview[1] = <<Rec(NameSvc, "10.0.0.1", 0, 1, NoHealth), Rec(NameSvcBare, "10.0.0.1", 0, 1, NoHealth)>>
    /\ Len(rres[1]) = 1

\* ------------------------------------------------------------------------
\* Claims about the empty keystore
\* ------------------------------------------------------------------------

\* The synchronizer has processed the keystore's present state, which holds
\* no data: its initial load found none, or its last Store.Update was made
\* from the present revision.
ProcessedNoData ==
    /\ kv = NilBytes
    /\ \/ pc # "init" /\ lastLog = "no_data"
       \/ storeRev = kvRev

\* Every lookup of the store misses and Len() is 0.
AllMiss ==
    /\ \A q \in LookupCalls \cup IndexLookups \cup WildLookups :
          StoreLookup(store, q) = {IF q.kind = "Len" THEN <<0>> ELSE <<>>}
    /\ store = NewStore

C25_NoHealthSpecIsHealthy ==
    [][(Returns /\ served'.q.qtype \in {"A", "AAAA"} /\ ~served'.q.republished) =>
        \A entries \in EntriesFor(served'.q) :
            \A i \in 1..Len(entries) :
                entries[i].Health = NoHealth =>
                    \E j \in 1..Len(served'.answers) : served'.answers[j].Data = entries[i].IP]_vars

\* C26: the lookups of one query see one snapshot of the store. A query
\* that found no answer in its type-specific lookup is answered as the store
\* of that lookup alone decides: with an empty success response when it
\* held an entry of the name, else by the next plugin or SERVFAIL.
C26_OneSnapshotPerQuery ==
    (hpc = "idle" /\ served.q.qtype \in {"A", "AAAA"} /\ served.q.reads > 1) =>
        IF served.q.hadRecords THEN served.wrote /\ served.rcode = "NOERROR"
        ELSE ~served.wrote /\ served.rcode \in {"NEXT", "SERVFAIL"}

\* ------------------------------------------------------------------------
\* Claims about the lifecycle of the health checker
\* ------------------------------------------------------------------------

\* Call i of Start is in its initial checkAll or in its loop.
Active(c, i) == c.loops[i].pc \in {"sweep", "select"}

\* Start is called by goroutine i in this step.
StartCalled(i) == ~Active(ck, i) /\ ck'.loops[i] # ck.loops[i]

\* C27: Start called while the checker runs returns at once: no sweep loop
\* is started, the stop channel and stopOnce stay as they are and
\* IsRunning() stays true.
C27_StartWhileRunningIsNoOp ==
    [][\A i \in Starters :
        (StartCalled(i) /\ ck.running) =>
            /\ ck' = [ck EXCEPT !.loops[i] = LoopAt("noop")]
            /\ ck'.running
            /\ <<cache, probed, calls>>' = <<cache, probed, calls>>]_vars

\* One call of Start runs its loop and the other has returned at once.
C27_Witness ==
    /\ ck.running
    /\ ck.loops[1].pc = "select"
    /\ ck.loops[2].pc = "noop"
    /\ ck.stopCh = 1

\* C28: Stop can be called at any time and any number of times: nothing
\* panics (no stop channel is closed twice, the nil channel is not closed)
\* and after Stop, until Start is accepted again, the checker is not running.
C28_StopIsIdempotent ==
    /\ ~ck.panicked
    /\ ck.stops > 0 => ~ck.running
    /\ ck.closed \subseteq 1..ck.stopCh

\* Stop was called again after it had stopped a running checker.
C28_Witness ==
    /\ ck.stops = 2
    /\ ck.closed = {1}
    /\ ck.stopCh = 1
    /\ ~ck.running /\ ~ck.panicked

\* No goroutine of any checkAll is left.
NoProbeInFlight(c) == c.probes = {}

\* C29: when Stop returns no probe is in flight, and from then until Start
\* is accepted again no sweep begins and no Cache.Update is made.
C29_StopIsSynchronous ==
    [][/\ (ck'.stops > 0 /\ ck' # ck) => NoProbeInFlight(ck')
       /\ (ck.stops > 0 /\ ck'.stops > 0) =>
            /\ calls' = calls
            /\ \A i \in Starters : ck'.loops[i].pc = "sweep" => ck.loops[i].pc = "sweep"]_vars

\* C30, the return of Start: a call of Start whose stop channel has been
\* closed by Stop, or whose context is cancelled, returns.
C30_StartReturnsAfterStop ==
    \A i \in Starters :
        (Active(ck, i) /\ (ck.loops[i].own \in ck.closed \/ ck.ctxDone)) ~> ~Active(ck, i)


\* C34: a checkAll whose context is cancelled starts no further goroutine
\* and returns only when every goroutine it started has returned.
C34_CancelledSweepAwaitsProbes ==
    [][\A i \in Starters :
        /\ (ck.loops[i].pc = "sweep" /\ ck'.loops[i].pc # "sweep") => Group(ck', i) = {}
        /\ ck.ctxDone => Group(ck', i) \subseteq Group(ck, i) \cup {[p EXCEPT !.sem = TRUE] : p \in Group(ck, i)}]_vars

\* C36: whatever the order of Start, Stop and the cancellation, at most one
\* call of Start is in its checkAll or its loop at a time.
C36_AtMostOneSweepLoop == Cardinality({i \in Starters : Active(ck, i)}) <= 1

\* ------------------------------------------------------------------------
\* Claims about the sweeps of the health checker
\* ------------------------------------------------------------------------

\* C31: the goroutines of one checkAll that hold its semaphore, and so may
\* be probing, are never more than MaxConcurrent; a checkAll that returns
\* while the context is not cancelled has run checkOne for every target of
\* its copy.
C31_SweepBoundedAndComplete ==
    [][\A i \in Starters :
        /\ Cardinality(Holders(ck', i)) <= hcCfg.MaxConcurrent
        /\ (ck.loops[i].pc = "sweep" /\ ck'.loops[i].pc = "select" /\ ~ck'.ctxDone) =>
              ck.loops[i].checked = 1..Len(ck.loops[i].snap)]_vars

\* A sweep of three targets has as many probes running as MaxConcurrent
\* allows, one goroutine is kept waiting and one check is done.
C31_Witness ==
    /\ hcCfg.MaxConcurrent = 1
    /\ Len(ck.loops[1].snap) = 3
    /\ Cardinality(Holders(ck, 1)) = 1
    /\ Cardinality(Group(ck, 1)) = 2
    /\ ck.loops[1].checked # {}
    /\ ~ck.ctxDone

HasHealth(r) == r.Health # NoHealth

\* The targets of the records that carry a health check, in their order.
HealthTargets(records) ==
    LET f == SelectSeq(records, HasHealth)
    IN  [j \in 1..Len(f) |-> Target(f[j].Hostname, f[j].IP, f[j].Health)]

\* C32: the target list is always that of the records given to the latest
\* UpdateTargets, those with a health check and no others; the goroutines
\* of one checkAll are those of one copy, which is a whole target list given
\* to the checker, whatever UpdateTargets does meanwhile.
C32_TargetsReplacedAtomically ==
    /\ ck.targets = HealthTargets(ck.given)
    /\ \A i \in Starters :
          \E r \in TargetRecs :
             /\ \A p \in Group(ck, i) :
                   p.k \in 1..Len(HealthTargets(r)) /\ p.t = HealthTargets(r)[p.k]
             /\ (ck.loops[i].pc = "sweep" /\ ~ck.ctxDone) => ck.loops[i].snap = HealthTargets(r)

\* A sweep goes on over the three targets it copied after the target list
\* was replaced by the two of other records, one without a health check.
C32_Witness ==
    /\ Len(ck.given) = 3 /\ Len(ck.targets) = 2
    /\ ck.loops[1].pc = "sweep"
    /\ Len(ck.loops[1].snap) = 3
    /\ Cardinality(Group(ck, 1)) = 3

\* The number of checkAll calls begun so far.
SweepsBegun == ck.stopCh + ck.sweeps

\* C37: the failure counter of a target is at most the number of sweeps
\* made, so no target is unhealthy before failuresBeforeDown sweeps were
\* made, also when a hostname and IP pair is given more than once.
C37_OneCountPerSweep ==
    \A key \in DOMAIN cache :
        /\ cache[key].Failures <= SweepsBegun
        /\ cache[key].Successes <= SweepsBegun
        /\ ~cache[key].Healthy => SweepsBegun >= hcCfg.FailuresBeforeDown


\* ------------------------------------------------------------------------
\* Claims about the targets of the health checker
\* ------------------------------------------------------------------------

\* C38: with health checking configured, the targets of the Checker are the
\* records with a health check among those the synchronizer has published
\* to the store.
C38_PublishedRecordsAreTargets ==
    (enableHealth /\ storeRev > 0) => ck.targets = HealthTargets(store.records)


\* C39: the health the handler consults for an entry is the one recorded
\* for the entry's target. Unless the policy is return_all, every address
\* in the answer to an A or AAAA query is that of a record matching the
\* name, by its own name or as a wildcard pattern, whose target the cache
\* holds as healthy.
C39_HealthOfTheEntrysTarget ==
    [][(/\ Returns
        /\ served'.q.qtype \in {"A", "AAAA"}
        /\ eh.checker /\ hcCfg.UnhealthyPolicy # "return_all") =>
        \A j \in 1..Len(served'.answers) :
            \E i \in 1..Len(store.records) :
                /\ store.records[i].IP = served'.answers[j].Data
                /\ wildcardMatch(store.records[i].Hostname, ToLower(served'.q.name))
                /\ CacheIsHealthy(cache, CacheKey(store.records[i].Hostname, store.records[i].IP))]_vars


\* ------------------------------------------------------------------------
\* Claims about the watch loop of the synchronizer
\* ------------------------------------------------------------------------

\* The event loop takes something from the event channel or finds it closed.
Consumes == pc = "recv" /\ (ch' # ch \/ pc' # pc)

\* The stream has ended for the event loop: an error event is next, or the
\* channel is closed and empty.
StreamEnded == (ch # <<>> /\ Head(ch).Err) \/ (ch = <<>> /\ chClosed)

\* C33: on an error event or a closed event channel the synchronizer leaves
\* the event loop for the back-off without touching the store, takes nothing
\* more from that channel, and with a live context calls Watch again after
\* the back-off, every time.
C33_ResubscribesAfterStreamEnd ==
    /\ [][/\ (Consumes /\ StreamEnded) => (pc' = "backoff" /\ store' = store)
          /\ pc \in {"backoff", "watch", "checked"} => (ch' = ch \/ pc' = "recv")
          /\ pc = "backoff" => pc' \in {"backoff", "watch", "returned"}]_vars
    /\ (pc = "backoff" /\ ~ck.ctxDone) ~> (pc = "recv" \/ ck.ctxDone)

\* After an error event the synchronizer has subscribed again, under a live
\* context.
C33_Witness ==
    /\ dropped
    /\ lastLog = "watch_error"
    /\ pc = "recv" /\ wpc = "run" /\ watchActive
    /\ ~ck.ctxDone

\* C35: once the context is cancelled watchEtcd returns and the Watch
\* goroutine exits with its channel closed, and Watch is not called again.
C35_NoWatchAfterCancel ==
    /\ [][ck.ctxDone => ~(pc = "checked" /\ pc' = "recv")]_vars
    /\ ck.ctxDone ~> (pc = "returned" /\ wpc # "run" /\ (wpc = "done" => chClosed))

\* C35 as amended: once the context is cancelled watchEtcd returns and the
\* Watch goroutine exits with its channel closed; no test of the context at
\* the top of the loop passes after the cancellation, and a Watch call made
\* after it gets no subscription. While a Watch goroutine runs the event
\* loop is there to take what it sends.
C35_ReturnsAfterCancel ==
    /\ [][/\ ck.ctxDone => (pc' = "checked" => pc = "checked")
          /\ (ck.ctxDone /\ pc = "checked" /\ pc' = "recv") => (~watchActive' /\ srvClosed')
          /\ wpc' = "run" => pc' = "recv"]_vars
    /\ ck.ctxDone ~> (pc = "returned" /\ wpc # "run" /\ (wpc = "done" => chClosed))

\* watchEtcd has returned after the cancellation, the goroutine of its
\* subscription has closed its channel.
C35_Witness ==
    /\ ck.ctxDone
    /\ pc = "returned" /\ wpc = "done" /\ chClosed
    /\ syncOk


\* ---------------------------------------------------------------------------------------
\* The parser of the extended hosts format (parseLine, parseExtended, parseHealthCheck,
\* parseInt). Attribute values are sequences of characters.

\* int(c - '0') for a digit, -1 for any other character.
Digit(c) ==
    CASE c = "0" -> 0 [] c = "1" -> 1 [] c = "2" -> 2 [] c = "3" -> 3 [] c = "4" -> 4
      [] c = "5" -> 5 [] c = "6" -> 6 [] c = "7" -> 7 [] c = "8" -> 8 [] c = "9" -> 9
      [] OTHER -> -1

\* The loop of parseInt from character i on, n being the value so far. The values drawn
\* have at most five characters, far from the width of int.
RECURSIVE parseIntFrom(_, _, _)
parseIntFrom(s, i, n) ==
    IF i > Len(s) THEN [n |-> n, err |-> FALSE]
    ELSE IF Digit(s[i]) < 0 THEN [n |-> 0, err |-> TRUE]
    ELSE parseIntFrom(s, i + 1, n * 10 + Digit(s[i]))

\* parseInt(s): the empty string gives 0 and no error.
parseInt(s) == parseIntFrom(s, 1, 0)

RECURSIVE IndexOf(_, _, _)
IndexOf(s, c, i) ==
    IF i > Len(s) THEN 0 ELSE IF s[i] = c THEN i ELSE IndexOf(s, c, i + 1)

\* strings.Cut(s, c)
Cut(s, c) ==
    LET i == IndexOf(s, c, 1)
    IN  IF i = 0 THEN [before |-> s, after |-> <<>>, found |-> FALSE]
        ELSE [before |-> SubSeq(s, 1, i - 1), after |-> SubSeq(s, i + 1, Len(s)), found |-> TRUE]

\* CheckType(typePart) for the three types that carry a port, "" for any other.
CheckTypeOf(typePart) ==
    CASE typePart = <<"t", "c", "p">> -> "tcp"
      [] typePart = <<"h", "t", "t", "p">> -> "http"
      [] typePart = <<"h", "t", "t", "p", "s">> -> "https"
      [] OTHER -> ""

\* parseHealthCheck(spec): nil for the empty string, for a spec without ":", for an unknown
\* type and for a port that is not a number of 1..65535. The path is not in the model's
\* Health.
parseHealthCheck(spec) ==
    IF spec = <<>> THEN NoHealth
    ELSE IF spec = <<"i", "c", "m", "p">> THEN [Type |-> "icmp", Port |-> 0]
    ELSE LET c == Cut(spec, ":")
             portStr == Cut(c.after, "/").before
             port == parseInt(portStr)
         IN  IF ~c.found THEN NoHealth
             ELSE IF CheckTypeOf(c.before) = "" THEN NoHealth
             ELSE IF port.err \/ port.n <= 0 \/ port.n > 65535 THEN NoHealth
             ELSE [Type |-> CheckTypeOf(c.before), Port |-> port.n]

\* An attribute of the comment as strings.Cut(attr, "=") returns it.
Attr(key, value) == [key |-> key, value |-> value, ok |-> TRUE]

\* extendedAttrs{weight: 1}
DefaultAttrs == [weight |-> 1, ttl |-> 0, health |-> NoHealth]

\* One round of the loop of parseExtended. uint32(t) is t for the values drawn.
applyAttr(ext, attr) ==
    IF ~attr.ok THEN ext
    ELSE CASE attr.key = "weight" ->
                LET w == parseInt(attr.value)
                IN  IF ~w.err /\ w.n > 0 THEN [ext EXCEPT !.weight = w.n] ELSE ext
           [] attr.key = "ttl" ->
                LET t == parseInt(attr.value)
                IN  IF ~t.err /\ t.n > 0 THEN [ext EXCEPT !.ttl = t.n] ELSE ext
           [] attr.key = "hc" -> [ext EXCEPT !.health = parseHealthCheck(attr.value)]
           [] OTHER -> ext

RECURSIVE parseExtendedFrom(_, _, _)
parseExtendedFrom(attrs, i, ext) ==
    IF i > Len(attrs) THEN ext
    ELSE parseExtendedFrom(attrs, i + 1, applyAttr(ext, attrs[i]))

\* parseExtended(comment) for a comment with (marker) or without the +etcdhosts marker.
parseExtended(marker, attrs) ==
    IF ~marker THEN DefaultAttrs ELSE parseExtendedFrom(attrs, 1, DefaultAttrs)

\* parseLine(line) for a line of an address, host names already in normal form, and a comment.
parseLine(line) ==
    LET ext == parseExtended(line.marker, line.attrs)
    IN  [i \in 1..Len(line.hosts) |->
            Rec(line.hosts[i], line.ip, ext.ttl, ext.weight, ext.health)]

\* The attributes drawn: weights and TTLs inside, at the ends of, and outside the documented
\* ranges, values that are no numbers, health checks with good and bad ports and types, an
\* unknown key and a word without "=".
LineAttrs ==
    {Attr("weight", v) : v \in {<<"0">>, <<"5">>, <<"1", "0", "0", "0", "0">>,
                                <<"1", "0", "0", "0", "1">>, <<"a">>}}
    \cup {Attr("ttl", v) : v \in {<<"0">>, <<"6", "0">>, <<"6", "5", "5", "3", "5">>,
                                  <<"6", "5", "5", "3", "6">>}}
    \cup {Attr("hc", v) : v \in {<<"t", "c", "p", ":", "8", "0">>, <<"t", "c", "p", ":", "0">>,
                                 <<"h", "t", "t", "p", ":", "8", "0", "/", "h">>,
                                 <<"t", "c", "p", ":", "6", "5", "5", "3", "6">>,
                                 <<"u", "d", "p", ":", "8", "0">>, <<"i", "c", "m", "p">>}}
    \cup {Attr("port", <<"8", "0">>), [key |-> "weight", value |-> <<>>, ok |-> FALSE]}

\* The hosts lines drawn: two names and the marker with up to two attributes, and one name
\* with an attribute and no marker.
Lines ==
    {[ip |-> "10.0.0.1", hosts |-> <<NameSvc, NameDb>>, marker |-> TRUE, attrs |-> as] :
        as \in {<<>>} \cup {<<a>> : a \in LineAttrs}
                      \cup {<<a, b>> : a \in LineAttrs, b \in LineAttrs}}
    \cup {[ip |-> "10.0.0.1", hosts |-> <<NameSvc>>, marker |-> FALSE,
           attrs |-> <<Attr("weight", <<"5">>)>>]}

\* A hosts line is written to the key.
PutLine(line) ==
    /\ kv # <<line>>
    /\ kv' = <<line>>
    /\ UNCHANGED <<kvRev, reachable, watchActive, srvQ, srvClosed, mode, enableHealth,
                   ch, chClosed, wpc, pc, startupErr, watcherLaunched, checkerLaunched,
                   lastLog, syncOk, dropped, storeRev>>
    /\ UNCHANGED <<store, nonSyncVars>>

\* loadFromEtcd: the data of the key is parsed and the records go to the store.
ParseLoaded ==
    /\ kv # NilBytes
    /\ store' = BuildStore(parseLine(kv[1]))
    /\ UNCHANGED <<syncVars, nonSyncVars>>

ParserInit ==
    /\ SyncIdle
    /\ store = NewStore
    /\ MuInit
    /\ NewChecker(0, 0, "return_all")
    /\ HandlerIdle
    /\ LibIdle

ParserNext ==
    \/ \E line \in Lines : PutLine(line)
    \/ ParseLoaded

ParserSpec == ParserInit /\ [][ParserNext]_vars

\* The ranges the attribute values are documented to have.
InRange(attr) ==
    LET v == parseInt(attr.value)
        c == Cut(attr.value, ":")
        port == parseInt(Cut(c.after, "/").before)
    IN  /\ attr.ok
        /\ CASE attr.key = "weight" -> attr.value # <<>> /\ ~v.err /\ v.n \in 1..10000
             [] attr.key = "ttl" -> attr.value # <<>> /\ ~v.err /\ v.n \in 1..65535
             [] attr.key = "hc" ->
                  \/ attr.value = <<"i", "c", "m", "p">>
                  \/ /\ c.found
                     /\ CheckTypeOf(c.before) # ""
                     /\ Cut(c.after, "/").before # <<>>
                     /\ ~port.err
                     /\ port.n \in 1..65535
             [] OTHER -> FALSE

HasKey(attrs, key) == \E i \in 1..Len(attrs) : attrs[i].key = key

====
